---- MODULE Spec2Model ----
(***************************************************************************)
(* State-machine model of parse_egg_images.py: the record loop of main(),  *)
(* the interactive session of process_one_image() with its mouse callback  *)
(* annotate_image(), the viewport arithmetic of calc_new_view() and         *)
(* make_new_view(), and the measurement finalizer at the end of            *)
(* process_one_image().                                                    *)
(*                                                                         *)
(* Coordinates are kept as the code keeps them: a landmark is the pair     *)
(* <<w, h>> (x, y) in pixels of the original image, a view is              *)
(* h_min, h_max, w_min, w_max.  A Python dict is a function whose DOMAIN   *)
(* is its key set.  Euclidean distances are kept exactly, as the squared   *)
(* distance under a root: [sq |-> d2].                                     *)
(***************************************************************************)
EXTENDS Integers, Sequences, FiniteSets, TLC

(***************************************************************************)
(* Bounds of the model.                                                    *)
(***************************************************************************)
\* events (mouse clicks and mode keystrokes) of a run in which the operator
\* is free to make any event at each step
MaxFree == 4
\* a click lands on one of the display positions k*(res-1)/ClickGrid, k in 0..ClickGrid
ClickGrid == 2
\* the points given to get_circle_center on its own have coordinates in 0..MaxCoord
MaxCoord == 3

(***************************************************************************)
(* Program constants.                                                      *)
(***************************************************************************)
screen_max_w == 1400
screen_max_h == 800
\* zoom_scale = 1.3 as the fraction ZoomNum / ZoomDen
ZoomNum == 13
ZoomDen == 10

EmptyDict == [k \in {} |-> TRUE]

\* dict.update(): the keys of e are added to d or replace those of d
Update(d, e) == [k \in (DOMAIN d) \cup (DOMAIN e) |-> IF k \in DOMAIN e THEN e[k] ELSE d[k]]

\* d[k] = v
Put(d, k, v) == Update(d, [x \in {k} |-> v])

Abs(n) == IF n < 0 THEN -n ELSE n

Min(a, b) == IF a < b THEN a ELSE b

Max(a, b) == IF a > b THEN a ELSE b

\* round to the nearest integer, for n >= 0 and d > 0
RoundDiv(n, d) == (2 * n + d) \div (2 * d)

(***************************************************************************)
(* Geometry kernel.                                                        *)
(***************************************************************************)
\* the squared Euclidean distance; distance() is its root
Dist2(pt1, pt2) == (pt2[1] - pt1[1]) * (pt2[1] - pt1[1]) + (pt2[2] - pt1[2]) * (pt2[2] - pt1[2])

distance(pt1, pt2) == [sq |-> Dist2(pt1, pt2)]

\* Python 2 integer division of the sums: rounds down
midpoint(pt1, pt2) == <<(pt1[1] + pt2[1]) \div 2, (pt1[2] + pt2[2]) \div 2>>

calc_bisector_ends(pt1, pt2) ==
    LET factor == 4
        mid == midpoint(pt1, pt2)
        pt1_rot == <<mid[1] - pt1[2] + mid[2], mid[2] + pt1[1] - mid[1]>>
        pt2_rot == <<mid[1] - pt2[2] + mid[2], mid[2] + pt2[1] - mid[1]>>
    IN  << <<mid[1] + factor * (pt1_rot[1] - mid[1]), mid[2] + factor * (pt1_rot[2] - mid[2])>>,
           <<mid[1] + factor * (pt2_rot[1] - mid[1]), mid[2] + factor * (pt2_rot[2] - mid[2])>> >>

RECURSIVE Gcd(_, _)
Gcd(a, b) == IF b = 0 THEN a ELSE Gcd(b, a % b)

\* the fraction n/d in lowest terms with a positive denominator (d # 0)
Rat(n, d) ==
    LET g == Gcd(Abs(n), Abs(d))
        s == IF d < 0 THEN -1 ELSE 1
    IN  [n |-> (s * n) \div g, d |-> (s * d) \div g]

\* the value 'DNE' that get_circle_center returns for both results
DNE == [dne |-> TRUE]

\* The three points in the order get_circle_center uses them (lines 226-238).
CircleOrder(pt1, pt2, pt3) ==
    IF pt1[1] = pt2[1] THEN <<pt2, pt3, pt1>>
    ELSE IF pt2[1] = pt3[1] THEN <<pt3, pt1, pt2>>
    ELSE <<pt1, pt2, pt3>>

RatInt(n) == [n |-> n, d |-> 1]

RatAdd(a, b) == Rat(a.n * b.d + b.n * a.d, a.d * b.d)

RatSub(a, b) == Rat(a.n * b.d - b.n * a.d, a.d * b.d)

RatMul(a, b) == Rat(a.n * b.n, a.d * b.d)

\* a / b, for b # 0
RatDiv(a, b) == Rat(a.n * b.d, a.d * b.n)

RatLess(a, b) == a.n * b.d < b.n * a.d

\* The result of get_circle_center: kind "DNE", kind "ZeroDivisionError"
\* (line 249 divides -1 by a slope_a of zero), or the center (two fractions)
\* and the radius (the root of the fraction sq).
get_circle_center(pt1, pt2, pt3) ==
    IF pt1[1] = pt2[1] /\ pt1[1] = pt3[1] THEN [kind |-> "DNE"]
    ELSE
      LET o == CircleOrder(pt1, pt2, pt3)
          x1 == o[1][1]
          y1 == o[1][2]
          x2 == o[2][1]
          y2 == o[2][2]
          x3 == o[3][1]
          y3 == o[3][2]
          slope_a == Rat(y2 - y1, x2 - x1)
          slope_b == Rat(y3 - y2, x3 - x2)
      IN  IF slope_a = slope_b THEN [kind |-> "DNE"]
          ELSE IF slope_a.n = 0 THEN [kind |-> "ZeroDivisionError"]
          ELSE
            LET x_center ==
                    RatDiv(RatSub(RatAdd(RatMul(RatMul(slope_a, slope_b), RatInt(y1 - y3)),
                                         RatMul(slope_b, RatInt(x1 + x2))),
                                  RatMul(slope_a, RatInt(x2 + x3))),
                           RatMul(RatInt(2), RatSub(slope_b, slope_a)))
                y_center ==
                    RatAdd(RatMul(RatDiv(RatInt(-1), slope_a),
                                  RatSub(x_center, Rat(x1 + x2, 2))),
                           Rat(y1 + y2, 2))
                dx == RatSub(x_center, RatInt(pt1[1]))
                dy == RatSub(y_center, RatInt(pt1[2]))
            IN  [kind |-> "circle",
                 center |-> [dne |-> FALSE, x |-> x_center, y |-> y_center],
                 radius |-> [dne |-> FALSE, sq |-> RatAdd(RatMul(dx, dx), RatMul(dy, dy))]]

(***************************************************************************)
(* Viewport controller.                                                    *)
(***************************************************************************)
\* The click at display coordinate c of a window res pixels long, in the
\* pixels of the original image: lo + int((float(c)/res) * (hi - lo)).
ToOrig(lo, hi, res, c) == lo + (c * (hi - lo)) \div res

\* calc_new_view that cuts the new view at the edges of the current one
\* instead of shifting it
calc_new_view_clipped(hmin, hmax, wmin, wmax, res_height, res_width, click_h, click_w) ==
    LET orig_click_h == ToOrig(hmin, hmax, res_height, click_h)
        orig_click_w == ToOrig(wmin, wmax, res_width, click_w)
        new_window_width == ((wmax - wmin) * ZoomDen) \div ZoomNum
        new_window_height == (screen_max_h * new_window_width) \div screen_max_w
        h0 == orig_click_h - new_window_height \div 2
        h1 == orig_click_h + new_window_height \div 2
        w0 == orig_click_w - new_window_width \div 2
        w1 == orig_click_w + new_window_width \div 2
        \* lines 156-159
        sh1 == IF h0 < hmin THEN Abs(h0 - hmin) ELSE 0
        h0a == h0 + sh1
        h1a == h1 + sh1
        \* lines 160-163
        sh2 == IF h1a > hmax THEN Abs(hmax - h1a) ELSE 0
        \* lines 164-167
        sw1 == IF w0 < wmin THEN Abs(w0 - wmin) ELSE 0
        w0a == w0 + sw1
        w1a == w1 + sw1
        \* lines 168-171
        sw2 == IF w1a > wmax THEN Abs(wmax - w1a) ELSE 0
    IN  <<Max(h0, hmin), Min(h1, hmax), Max(w0, wmin), Min(w1, wmax)>>

\* calc_new_view: the view <<h_min, h_max, w_min, w_max>> after a zoom on the
\* display position (click_h, click_w).
calc_new_view(hmin, hmax, wmin, wmax, res_height, res_width, click_h, click_w) ==
    LET orig_click_h == ToOrig(hmin, hmax, res_height, click_h)
        orig_click_w == ToOrig(wmin, wmax, res_width, click_w)
        new_window_width == ((wmax - wmin) * ZoomDen) \div ZoomNum
        new_window_height == (screen_max_h * new_window_width) \div screen_max_w
        h0 == orig_click_h - new_window_height \div 2
        h1 == orig_click_h + new_window_height \div 2
        w0 == orig_click_w - new_window_width \div 2
        w1 == orig_click_w + new_window_width \div 2
        \* lines 156-159
        sh1 == IF h0 < hmin THEN Abs(h0 - hmin) ELSE 0
        h0a == h0 + sh1
        h1a == h1 + sh1
        \* lines 160-163
        sh2 == IF h1a > hmax THEN Abs(hmax - h1a) ELSE 0
        \* lines 164-167
        sw1 == IF w0 < wmin THEN Abs(w0 - wmin) ELSE 0
        w0a == w0 + sw1
        w1a == w1 + sw1
        \* lines 168-171
        sw2 == IF w1a > wmax THEN Abs(wmax - w1a) ELSE 0
    IN  <<h0a - sh2, h1a - sh2, w0a - sw2, w1a - sw2>>

\* The number of rows of im[lo:hi] for an array of n rows (Python slice
\* rules: a negative bound counts from the end, and bounds are clipped).
SliceLen(lo, hi, n) ==
    LET a == IF lo < 0 THEN Max(lo + n, 0) ELSE Min(lo, n)
        b == IF hi < 0 THEN Max(hi + n, 0) ELSE Min(hi, n)
    IN  Max(b - a, 0)

\* make_new_view, as far as the program reads its result: the shape of the
\* resized crop, or the error raised.  The resize factor is kept as the
\* fraction fn/fd.
make_new_view(hmin, hmax, wmin, wmax, im_h, im_w) ==
    IF wmax - wmin = 0 THEN [err |-> "ZeroDivisionError", res_h |-> 0, res_w |-> 0]
    ELSE
      LET rows == SliceLen(hmin, hmax, im_h)
          cols == SliceLen(wmin, wmax, im_w)
          byh == (hmax - hmin) * screen_max_w > screen_max_h * (wmax - wmin)
          fn == IF byh THEN screen_max_h ELSE screen_max_w
          fd == IF byh THEN hmax - hmin ELSE wmax - wmin
          rh == RoundDiv(rows * fn, fd)
          rw == RoundDiv(cols * fn, fd)
      IN  IF rows = 0 \/ cols = 0 \/ rh = 0 \/ rw = 0
          THEN [err |-> "cv2.error", res_h |-> 0, res_w |-> 0]
          ELSE [err |-> "", res_h |-> rh, res_w |-> rw]

(***************************************************************************)
(* Inputs of a run: the dictionary file, the image directory, the          *)
(* checkpoint file found at start, and the operator's clicks.              *)
(***************************************************************************)
RecPlain == [b |-> "b1", g |-> "Aus", s |-> "bus", ID |-> "1", i |-> "3"]

RecCurated ==
    [b |-> "b2", g |-> "Cus", cg |-> "Dus", cs |-> "eus", ID |-> "2", i |-> "7",
     problem |-> "synonym"]

RecRetry == [b |-> "b3", g |-> "Fus", cg |-> "Fus", ID |-> "3", i |-> "2", im_status |-> "missing"]

RecDone == [b |-> "b4", g |-> "Gus", ID |-> "4", i |-> "9", im_status |-> "box"]

RecNoPage == [b |-> "b5", g |-> "Hus", ID |-> "5"]

RecProblem == [b |-> "b6", g |-> "Ius", ID |-> "6", i |-> "4", problem |-> "order"]

\* a line eval() turns into a dict, and one that raises SyntaxError
Good(rec) == [ok |-> TRUE, rec |-> rec]

BadLine == [ok |-> FALSE, rec |-> EmptyDict]

InputFiles ==
    { <<Good(RecPlain)>>,
      <<Good(RecDone), Good(RecPlain), Good(RecCurated)>>,
      <<Good(RecRetry), Good(RecNoPage), Good(RecPlain)>>,
      <<BadLine, Good(RecPlain)>>,
      <<Good(RecNoPage), Good(RecProblem)>> }

\* base_img_name (lines 845-851), as the tuple of the joined parts
BaseName(rec) ==
    IF "cs" \in DOMAIN rec THEN <<rec.b, rec.cg, rec.cs, rec.ID>>
    ELSE IF "cg" \in DOMAIN rec THEN <<rec.b, rec.cg, rec.ID>>
    ELSE <<rec.b, rec.g, rec.ID>>

\* Image directories: base name |-> <<height, width>> of the PNG stored
\* under that name.  A tall page, a wide page, and a directory that lacks
\* the page of RecRetry.
TallPage == <<12, 9>>

WidePage == <<3, 13>>

ImageDirs ==
    { [n \in {BaseName(RecPlain), BaseName(RecCurated)} |-> TallPage],
      [n \in {BaseName(RecPlain), BaseName(RecCurated), BaseName(RecRetry)} |->
            IF n = BaseName(RecPlain) THEN WidePage ELSE TallPage] }

\* The operator's events: a left or right click at the display position
\* <<fy, fx>>, in units of (res - 1) / ClickGrid, or a mode keystroke.
L(fy, fx) == [ev |-> "L", at |-> <<fy, fx>>]

R(fy, fx) == [ev |-> "R", at |-> <<fy, fx>>]

K(key) == [ev |-> key, at |-> <<0, 0>>]

ModeKeys == {"b", "8", "4", "s", "-", "Delete"}

FreeEvents ==
    {L(0, 0), L(2, 2), L(1, 0)} \cup {R(0, 0), R(1, 1), R(2, 2)} \cup {K(k) : k \in ModeKeys}

\* A script gives, for each step of the run, the events the operator may
\* make at that step ('n' and Esc may be pressed at any step).
\* any event at each of MaxFree steps
ScriptFree == [k \in 1..MaxFree |-> FreeEvents]

Only(events) == [k \in 1..Len(events) |-> {events[k]}]

\* box, eight outline points of a curved egg, scale bar
ScriptCurved ==
    Only(<< L(0, 0), L(2, 2),
            K("8"), L(2, 0), L(2, 2), L(0, 1), L(1, 1), L(0, 0), L(1, 0), L(0, 2), L(2, 2),
            K("s"), L(0, 0), L(0, 2) >>)

\* eight outline points whose middle is level with the first pole, box
ScriptLevel ==
    Only(<< K("8"), L(1, 0), L(0, 2), L(1, 1), L(1, 1), L(0, 0), L(1, 0), L(0, 2), L(1, 2),
            K("b"), L(2, 2), L(0, 0) >>)

\* eight points of a curved egg, then a second pass of a level one
ScriptTwice ==
    Only(<< K("8"), L(2, 0), L(2, 2), L(0, 1), L(1, 1), L(0, 0), L(1, 0), L(0, 2), L(2, 2),
            K("8"), L(1, 0), L(0, 2), L(1, 1), L(1, 1), L(0, 0), L(1, 0), L(0, 2), L(1, 2) >>)

\* box, four points of a straight egg and a fifth click, scale bar of three clicks
ScriptFour ==
    Only(<< L(2, 2), L(0, 0), L(1, 1),
            K("4"), L(1, 0), L(1, 2), L(0, 1), L(2, 1), L(0, 0),
            K("s"), L(0, 0), L(2, 0), L(2, 2) >>)

\* everything clicked on one spot
ScriptSame ==
    Only(<< L(1, 1), L(1, 1), K("s"), L(1, 1), L(1, 1),
            K("8"), L(1, 1), L(1, 1), L(1, 1), L(1, 1), L(1, 1), L(1, 1), L(1, 1), L(1, 1) >>)

\* scale bar first, then one click in box mode; zoom, one click, zoom out
ScriptMixed ==
    Only(<< K("s"), L(0, 0), K("b"), L(2, 2), R(1, 1), L(0, 0), K("-"), L(2, 2),
            K("4"), L(0, 0), K("Delete"), K("s"), L(1, 1) >>)

Scripts == {ScriptFree, ScriptCurved, ScriptLevel, ScriptTwice, ScriptFour, ScriptSame,
            ScriptMixed}

\* answers to the scale-bar prompts: the unit, and the length typed in, in
\* that unit
SbAnswers == { <<"m", 5>>, <<"u", 500>> }

\* answers to the qualitative questions: image type, development,
\* operculum, geometric pattern, and the magnification ("n" for none)
QAnswers == { <<"s", "y", "n", "n", "n">>, <<"d", "n", "y", "y", "40">> }

VARIABLES
    lines,              \* the lines of args.dict_file
    imgdir,             \* the PNG files of args.input_image_dir
    script,             \* the events the operator may make, step by step
    store,              \* tmp_out_file.txt
    overviews,          \* files written to args.overview_output_dir
    croppeds,           \* files written to args.cropped_output_dir
    pc,                 \* where the program is
    err,                \* the exception that ended the run, "" if none
    file_list, number_of_entries, j,
    image_dict,         \* what process_one_image returned to main
    mode, points, sb_ends, px, py, cx, cy,
    h_min, h_max, w_min, w_max, res_h, res_w,
    image_data,
    img,                \* the annotations drawn on the image array
    img_h, img_w,
    q_confirm,          \* the answer to 'Is this correct?', "" before it
    nev,                \* events of the script made so far
    fresh,              \* history: keys of image_data stored since points was last set to 1
    pmode,              \* history: the mode the click kept in px, py was made in, "" if none
    lastev,             \* history: the last event the session received and the keys it stored
    confirmed,          \* history: entry number |-> the image_data the operator said 'y' to
    printed,            \* the warnings and final message printed so far
    fit_in,             \* the three points given to get_circle_center on its own
    fit_out             \* what get_circle_center did with fit_in

vars == <<lines, imgdir, script, store, overviews, croppeds, pc, err, file_list,
          number_of_entries, j, image_dict, mode, points, sb_ends, px, py, cx, cy,
          h_min, h_max, w_min, w_max, res_h, res_w, image_data, img, img_h, img_w,
          q_confirm, nev, fresh, pmode, lastev, confirmed, printed, fit_in, fit_out>>

inputVars == <<lines, imgdir, script>>

fitVars == <<fit_in, fit_out>>

outVars == <<store, overviews, croppeds>>

mainVars == <<file_list, number_of_entries, j, image_dict>>

viewVars == <<h_min, h_max, w_min, w_max, res_h, res_w>>

clickVars == <<points, sb_ends, px, py, pmode, cx, cy, image_data, img, fresh>>

\* an event of the session and the keys of image_data it stored
Ev(ev, keys) == [ev |-> ev, keys |-> keys]

NoFile == [exists |-> FALSE, entries |-> <<>>]

OldStore == [exists |-> TRUE, entries |-> <<RecDone>>]

Init ==
    /\ lines \in InputFiles
    /\ imgdir \in ImageDirs
    /\ script \in Scripts
    /\ store \in {NoFile, OldStore}
    /\ overviews = EmptyDict
    /\ croppeds = EmptyDict
    /\ pc = "start"
    /\ err = ""
    /\ file_list = <<>>
    /\ number_of_entries = 0
    /\ j = 0
    /\ image_dict = EmptyDict
    /\ mode = "unset"
    /\ points = 0
    /\ sb_ends = 0
    /\ px = -1
    /\ pmode = ""
    /\ py = -1
    /\ cx = -1
    /\ cy = -1
    /\ h_min = 0
    /\ h_max = 0
    /\ w_min = 0
    /\ w_max = 0
    /\ res_h = 0
    /\ res_w = 0
    /\ image_data = EmptyDict
    /\ img = {}
    /\ img_h = 0
    /\ img_w = 0
    /\ q_confirm = ""
    /\ nev = 0
    /\ fresh = {}
    /\ lastev = Ev("", {})
    /\ confirmed = EmptyDict
    /\ printed = {}
    /\ fit_in = <<>>
    /\ fit_out = [kind |-> "none"]

(***************************************************************************)
(* main()                                                                  *)
(***************************************************************************)
RECURSIVE Decode(_)
\* lines 829-840: the lines that eval() accepts, in order
Decode(ls) ==
    IF ls = <<>> THEN <<>>
    ELSE IF Head(ls).ok THEN <<Head(ls).rec>> \o Decode(Tail(ls))
    ELSE Decode(Tail(ls))

\* the entry the loop is at (file_list[j])
Entry == file_list[j + 1]

\* Eligible without the test of the problem flag
EligibleAnyProblem(rec) ==
    /\ IF "im_status" \in DOMAIN rec THEN rec.im_status = "missing" ELSE TRUE
    /\ "i" \in DOMAIN rec

\* lines 855-857
Eligible(rec) ==
    /\ IF "im_status" \in DOMAIN rec THEN rec.im_status = "missing" ELSE TRUE
    /\ IF "problem" \in DOMAIN rec
       THEN rec.problem \notin {"no_taxonomy", "no_name", "order"}
       ELSE TRUE
    /\ "i" \in DOMAIN rec

\* lines 823-825: an existing tmp_out_file.txt ends the run
MainRefuse ==
    /\ pc = "start"
    /\ store.exists
    /\ pc' = "done"
    /\ printed' = printed \cup {<<"cannot over-write", 0>>}
    /\ UNCHANGED <<inputVars, fitVars, lastev, confirmed, outVars, err, mainVars, mode, viewVars, clickVars,
                   img_h, img_w, q_confirm, nev>>

\* MainRead without the test for an existing tmp_out_file.txt
MainReadAlways ==
    /\ pc = "start"
    /\ file_list' = Decode(lines)
    /\ number_of_entries' = Len(lines)
    /\ j' = 0
    /\ pc' = "loop"
    /\ printed' = printed \cup {<<"problem line", k>> : k \in {i \in 1..Len(lines) : ~lines[i].ok}}
    /\ UNCHANGED <<inputVars, fitVars, outVars, err, image_dict, mode, viewVars, clickVars,
                   img_h, img_w, q_confirm, nev, lastev, confirmed>>

\* lines 827-840
MainRead ==
    /\ pc = "start"
    /\ ~store.exists
    /\ file_list' = Decode(lines)
    /\ number_of_entries' = Len(lines)
    /\ j' = 0
    /\ pc' = "loop"
    /\ printed' = printed \cup {<<"problem line", k>> : k \in {i \in 1..Len(lines) : ~lines[i].ok}}
    /\ UNCHANGED <<inputVars, fitVars, lastev, confirmed, outVars, err, image_dict, mode, viewVars, clickVars,
                   img_h, img_w, q_confirm, nev>>

\* the loop is exhausted; line 893 reads the global mode, which exists only
\* once process_one_image has run
MainEnd ==
    /\ pc = "loop"
    /\ j = number_of_entries
    /\ IF mode = "unset"
       THEN pc' = "crashed" /\ err' = "NameError"
       ELSE pc' = "done" /\ err' = err
    /\ printed' = printed \cup (IF mode \notin {"unset", "quit"} THEN {<<"all examined", 0>>} ELSE {})
    /\ UNCHANGED <<inputVars, fitVars, lastev, confirmed, outVars, mainVars, mode, viewVars, clickVars,
                   img_h, img_w, q_confirm, nev>>

\* line 845: number_of_entries counts the lines, file_list the decoded ones
MainIndexError ==
    /\ pc = "loop"
    /\ j < number_of_entries
    /\ j >= Len(file_list)
    /\ pc' = "crashed"
    /\ err' = "IndexError"
    /\ UNCHANGED <<inputVars, fitVars, printed, lastev, confirmed, outVars, mainVars, mode, viewVars, clickVars,
                   img_h, img_w, q_confirm, nev>>

\* lines 852-857: the entry is not offered to the operator
MainSkip ==
    /\ pc = "loop"
    /\ j < number_of_entries
    /\ j < Len(file_list)
    /\ ~Eligible(Entry)
    /\ j' = j + 1
    /\ UNCHANGED <<inputVars, fitVars, printed, lastev, confirmed, outVars, pc, err, file_list, number_of_entries, image_dict,
                   mode, viewVars, clickVars, img_h, img_w, q_confirm, nev>>

\* MainOpenMissing that leaves mode as the last session set it
MainOpenMissingKeepsMode ==
    /\ pc = "loop"
    /\ j < number_of_entries
    /\ j < Len(file_list)
    /\ Eligible(Entry)
    /\ BaseName(Entry) \notin DOMAIN imgdir
    /\ mode' = mode
    /\ image_data' = [im_status |-> "missing"]
    /\ q_confirm' = ""
    /\ pc' = "returned"
    /\ printed' = printed \cup {<<"image not found", j + 1>>}
    /\ UNCHANGED <<inputVars, fitVars, lastev, confirmed, outVars, err, mainVars, viewVars, points, sb_ends, px, py, pmode, cx, cy,
                   img, fresh, img_h, img_w, nev>>

\* lines 877 and 507-516: the image is not there
MainOpenMissing ==
    /\ pc = "loop"
    /\ j < number_of_entries
    /\ j < Len(file_list)
    /\ Eligible(Entry)
    /\ BaseName(Entry) \notin DOMAIN imgdir
    /\ mode' = "next"
    /\ image_data' = [im_status |-> "missing"]
    /\ q_confirm' = ""
    /\ pc' = "returned"
    /\ printed' = printed \cup {<<"image not found", j + 1>>}
    /\ UNCHANGED <<inputVars, fitVars, lastev, confirmed, outVars, err, mainVars, viewVars, points, sb_ends, px, py, pmode, cx, cy,
                   img, fresh, img_h, img_w, nev>>

\* lines 877, 507-526 and the first pass through lines 541-542
MainOpenImage ==
    /\ pc = "loop"
    /\ j < number_of_entries
    /\ j < Len(file_list)
    /\ Eligible(Entry)
    /\ BaseName(Entry) \in DOMAIN imgdir
    /\ LET dims == imgdir[BaseName(Entry)]
           v == make_new_view(0, dims[1], 0, dims[2], dims[1], dims[2])
       IN  /\ img_h' = dims[1]
           /\ img_w' = dims[2]
           /\ h_min' = 0
           /\ w_min' = 0
           /\ h_max' = dims[1]
           /\ w_max' = dims[2]
           /\ res_h' = v.res_h
           /\ res_w' = v.res_w
    /\ image_data' = EmptyDict
    /\ img' = {}
    /\ px' = -1
    /\ pmode' = ""
    /\ py' = -1
    /\ mode' = "box"
    /\ points' = 1
    /\ sb_ends' = 1
    /\ fresh' = {}
    /\ q_confirm' = ""
    /\ pc' = "events"
    /\ lastev' = Ev("", {})
    /\ UNCHANGED <<inputVars, fitVars, printed, confirmed, outVars, err, mainVars, cx, cy, nev>>

\* MainQuit that goes on to the next entry instead of leaving the loop
MainQuitGoesOn ==
    /\ pc = "returned"
    /\ mode = "quit"
    /\ image_dict' = image_data
    /\ pc' = "loop"
    /\ j' = j + 1
    /\ UNCHANGED <<inputVars, fitVars, printed, lastev, confirmed, outVars, err, file_list, number_of_entries, mode, viewVars,
                   clickVars, img_h, img_w, q_confirm, nev>>

\* lines 881-883: after Esc the loop is left before the entry is updated
MainQuit ==
    /\ pc = "returned"
    /\ mode = "quit"
    /\ image_dict' = image_data
    /\ pc' = "done"
    /\ UNCHANGED <<inputVars, fitVars, printed, lastev, confirmed, outVars, err, file_list, number_of_entries, j, mode, viewVars,
                   clickVars, img_h, img_w, q_confirm, nev>>

\* MainMerge that stores the session's result in place of the record
MainMergeReplaces ==
    /\ pc = "returned"
    /\ mode # "quit"
    /\ image_dict' = image_data
    /\ file_list' = [file_list EXCEPT ![j + 1] = image_data]
    /\ store' = [exists |-> TRUE, entries |-> file_list']
    /\ j' = j + 1
    /\ pc' = "loop"
    /\ UNCHANGED <<inputVars, fitVars, printed, lastev, confirmed, overviews, croppeds, err, number_of_entries, mode, viewVars,
                   clickVars, img_h, img_w, q_confirm, nev>>

\* lines 885-892: update the entry, rewrite tmp_out_file.txt, next entry
MainMerge ==
    /\ pc = "returned"
    /\ mode # "quit"
    /\ image_dict' = image_data
    /\ file_list' = [file_list EXCEPT ![j + 1] = Update(@, image_data)]
    /\ store' = [exists |-> TRUE, entries |-> file_list']
    /\ j' = j + 1
    /\ pc' = "loop"
    /\ UNCHANGED <<inputVars, fitVars, printed, lastev, confirmed, overviews, croppeds, err, number_of_entries, mode, viewVars,
                   clickVars, img_h, img_w, q_confirm, nev>>

(***************************************************************************)
(* annotate_image(): the mouse callback.                                   *)
(***************************************************************************)
\* the events the operator may make now
Offered == IF nev < Len(script) THEN script[nev + 1] ELSE {}

\* the display coordinates of a click at <<fy, fx>>
ClickY(at) == (at[1] * (res_h - 1)) \div ClickGrid

ClickX(at) == (at[2] * (res_w - 1)) \div ClickGrid

Dot(label, pt) == <<"dot", label, pt>>

Line(a, b) == <<"line", a, b>>

Rect(a, b) == <<"rect", a, b>>

\* What a left click changes: [data, pts, sb, im, keys, raised], where keys
\* are the keys of image_data it stored and raised tells that the callback
\* ended in an exception at that point.
Result(data, pts, sb, im, keys, raised) ==
    [data |-> data, pts |-> pts, sb |-> sb, im |-> im, keys |-> keys, raised |-> raised]

\* lines 329-352
ClickBox(x, y) ==
    IF px # -1
    THEN LET raw_box_h1 == ToOrig(h_min, h_max, res_h, y)
             raw_box_w1 == ToOrig(w_min, w_max, res_w, x)
             raw_box_h2 == ToOrig(h_min, h_max, res_h, py)
             raw_box_w2 == ToOrig(w_min, w_max, res_w, px)
             hs == IF raw_box_h1 < raw_box_h2
                   THEN [im_box_h1 |-> raw_box_h1, im_box_h2 |-> raw_box_h2]
                   ELSE [im_box_h1 |-> raw_box_h2, im_box_h2 |-> raw_box_h1]
             ws == IF raw_box_w1 < raw_box_w2
                   THEN [im_box_w1 |-> raw_box_w1, im_box_w2 |-> raw_box_w2]
                   ELSE [im_box_w1 |-> raw_box_w2, im_box_w2 |-> raw_box_w1]
         IN  Result(Update(Update(image_data, hs), ws), points, sb_ends,
                    img \cup {Rect(<<raw_box_w1, raw_box_h1>>, <<raw_box_w2, raw_box_h2>>)},
                    {"im_box_h1", "im_box_h2", "im_box_w1", "im_box_w2"}, FALSE)
    ELSE Result(image_data, points, sb_ends, img, {}, FALSE)

\* lines 386-414: the fourth outline click
ClickFourth(pt) ==
    LET d1 == Put(image_data, "im_p_midpoint_2", pt)
        im1 == img \cup {Dot("M2", pt)}
    IN  IF mode # "8points"
        THEN Result(d1, points + 1, sb_ends, im1, {"im_p_midpoint_2"}, FALSE)
        ELSE IF "im_p_midpoint_1" \notin DOMAIN image_data
        THEN Result(d1, points + 1, sb_ends, im1, {"im_p_midpoint_2"}, TRUE)
        ELSE
          LET egg_middle == midpoint(pt, image_data["im_p_midpoint_1"])
              d2 == Put(d1, "im_p_egg_middle", egg_middle)
              k2 == {"im_p_midpoint_2", "im_p_egg_middle"}
          IN  IF ~({"im_p_length_1", "im_p_length_2"} \subseteq DOMAIN image_data)
              THEN Result(d2, points + 1, sb_ends, im1, k2, TRUE)
              ELSE
                LET p1 == image_data["im_p_length_1"]
                    p2 == image_data["im_p_length_2"]
                    c == get_circle_center(egg_middle, p1, p2)
                    q1 == calc_bisector_ends(egg_middle, p1)
                IN  IF c.kind = "ZeroDivisionError"
                    THEN Result(d2, points + 1, sb_ends, im1, k2, TRUE)
                    ELSE Result(
                           Update(d2, [im_p_circle_center |->
                                          IF c.kind = "DNE" THEN DNE ELSE c.center,
                                       im_radius_px |->
                                          IF c.kind = "DNE" THEN DNE ELSE c.radius]),
                           points + 1, sb_ends,
                           im1 \cup {Dot("M", egg_middle), Line(egg_middle, p1),
                                     Line(egg_middle, p2), Line(q1[1], q1[2])},
                           k2 \cup {"im_p_circle_center", "im_radius_px"}, FALSE)

\* ClickPoints whose fifth click is taken in '4points' mode too
ClickPointsAnyMode(pt) ==
    IF points = 1
    THEN Result(Put(image_data, "im_p_length_1", pt), points + 1, sb_ends,
                img \cup {Dot("L1", pt)}, {"im_p_length_1"}, FALSE)
    ELSE IF points = 2
    THEN IF "im_p_length_1" \notin DOMAIN image_data
         THEN Result(Put(image_data, "im_p_length_2", pt), points, sb_ends,
                     img \cup {Dot("L2", pt)}, {"im_p_length_2"}, TRUE)
         ELSE LET p1 == image_data["im_p_length_1"]
                  m == calc_bisector_ends(pt, p1)
              IN  Result(Put(image_data, "im_p_length_2", pt), points + 1, sb_ends,
                         img \cup {Dot("L2", pt), Line(pt, p1), Line(m[1], m[2])},
                         {"im_p_length_2"}, FALSE)
    ELSE IF points = 3
    THEN Result(Put(image_data, "im_p_midpoint_1", pt), points + 1, sb_ends,
                img \cup {Dot("M1", pt)}, {"im_p_midpoint_1"}, FALSE)
    ELSE IF points = 4
    THEN ClickFourth(pt)
    ELSE IF points = 5
    THEN Result(Put(image_data, "im_p_1st_quart_1", pt), points + 1, sb_ends,
                img \cup {Dot("1Q1", pt)}, {"im_p_1st_quart_1"}, FALSE)
    ELSE IF points = 6 /\ mode = "8points"
    THEN IF ~({"im_p_egg_middle", "im_p_length_2"} \subseteq DOMAIN image_data)
         THEN Result(Put(image_data, "im_p_1st_quart_2", pt), points, sb_ends,
                     img \cup {Dot("1Q2", pt)}, {"im_p_1st_quart_2"}, TRUE)
         ELSE LET q3 == calc_bisector_ends(image_data["im_p_egg_middle"],
                                           image_data["im_p_length_2"])
              IN  Result(Put(image_data, "im_p_1st_quart_2", pt), points + 1, sb_ends,
                         img \cup {Dot("1Q2", pt), Line(q3[1], q3[2])},
                         {"im_p_1st_quart_2"}, FALSE)
    ELSE IF points = 7 /\ mode = "8points"
    THEN Result(Put(image_data, "im_p_3rd_quart_1", pt), points + 1, sb_ends,
                img \cup {Dot("3Q1", pt)}, {"im_p_3rd_quart_1"}, FALSE)
    ELSE IF points = 8 /\ mode = "8points"
    THEN Result(Put(image_data, "im_p_3rd_quart_2", pt), points + 1, sb_ends,
                img \cup {Dot("3Q2", pt)}, {"im_p_3rd_quart_2"}, FALSE)
    ELSE Result(image_data, points, sb_ends, img, {}, FALSE)

\* lines 354-450
ClickPoints(pt) ==
    IF points = 1
    THEN Result(Put(image_data, "im_p_length_1", pt), points + 1, sb_ends,
                img \cup {Dot("L1", pt)}, {"im_p_length_1"}, FALSE)
    ELSE IF points = 2
    THEN IF "im_p_length_1" \notin DOMAIN image_data
         THEN Result(Put(image_data, "im_p_length_2", pt), points, sb_ends,
                     img \cup {Dot("L2", pt)}, {"im_p_length_2"}, TRUE)
         ELSE LET p1 == image_data["im_p_length_1"]
                  m == calc_bisector_ends(pt, p1)
              IN  Result(Put(image_data, "im_p_length_2", pt), points + 1, sb_ends,
                         img \cup {Dot("L2", pt), Line(pt, p1), Line(m[1], m[2])},
                         {"im_p_length_2"}, FALSE)
    ELSE IF points = 3
    THEN Result(Put(image_data, "im_p_midpoint_1", pt), points + 1, sb_ends,
                img \cup {Dot("M1", pt)}, {"im_p_midpoint_1"}, FALSE)
    ELSE IF points = 4
    THEN ClickFourth(pt)
    ELSE IF points = 5 /\ mode = "8points"
    THEN Result(Put(image_data, "im_p_1st_quart_1", pt), points + 1, sb_ends,
                img \cup {Dot("1Q1", pt)}, {"im_p_1st_quart_1"}, FALSE)
    ELSE IF points = 6 /\ mode = "8points"
    THEN IF ~({"im_p_egg_middle", "im_p_length_2"} \subseteq DOMAIN image_data)
         THEN Result(Put(image_data, "im_p_1st_quart_2", pt), points, sb_ends,
                     img \cup {Dot("1Q2", pt)}, {"im_p_1st_quart_2"}, TRUE)
         ELSE LET q3 == calc_bisector_ends(image_data["im_p_egg_middle"],
                                           image_data["im_p_length_2"])
              IN  Result(Put(image_data, "im_p_1st_quart_2", pt), points + 1, sb_ends,
                         img \cup {Dot("1Q2", pt), Line(q3[1], q3[2])},
                         {"im_p_1st_quart_2"}, FALSE)
    ELSE IF points = 7 /\ mode = "8points"
    THEN Result(Put(image_data, "im_p_3rd_quart_1", pt), points + 1, sb_ends,
                img \cup {Dot("3Q1", pt)}, {"im_p_3rd_quart_1"}, FALSE)
    ELSE IF points = 8 /\ mode = "8points"
    THEN Result(Put(image_data, "im_p_3rd_quart_2", pt), points + 1, sb_ends,
                img \cup {Dot("3Q2", pt)}, {"im_p_3rd_quart_2"}, FALSE)
    ELSE Result(image_data, points, sb_ends, img, {}, FALSE)

\* lines 452-465
ClickScaleBar(pt) ==
    IF sb_ends = 1
    THEN Result(Put(image_data, "im_p_scale_bar_1", pt), points, sb_ends + 1,
                img \cup {Dot("S1", pt)}, {"im_p_scale_bar_1"}, FALSE)
    ELSE IF sb_ends = 2
    THEN Result(Put(image_data, "im_p_scale_bar_2", pt), points, sb_ends,
                img \cup {Dot("S2", pt)}, {"im_p_scale_bar_2"}, FALSE)
    ELSE Result(image_data, points, sb_ends, img, {}, FALSE)

\* lines 320-465: the left click at display position (x, y)
ClickLeft(x, y) ==
    LET pt == <<ToOrig(w_min, w_max, res_w, x), ToOrig(h_min, h_max, res_h, y)>>
    IN  IF mode = "box" THEN ClickBox(x, y)
        ELSE IF mode \in {"8points", "4points"} THEN ClickPoints(pt)
        ELSE IF mode = "scale_bar" THEN ClickScaleBar(pt)
        ELSE Result(image_data, points, sb_ends, img, {}, FALSE)

\* cv2.EVENT_LBUTTONUP.  An exception raised inside the callback leaves what
\* the callback had stored by then; whether the binding then drops the
\* exception (the session goes on) or lets it end the program is not the
\* repository's choice, so both follow.
LeftClick ==
    /\ pc = "events"
    /\ mode # "zoom_in"
    /\ \E e \in Offered :
          /\ e.ev = "L"
          /\ LET r == ClickLeft(ClickX(e.at), ClickY(e.at))
             IN  /\ image_data' = r.data
                 /\ points' = r.pts
                 /\ sb_ends' = r.sb
                 /\ img' = r.im
                 /\ fresh' = fresh \cup r.keys
                 /\ lastev' = Ev("L", r.keys)
                 /\ IF r.raised
                    THEN /\ px' = px
                         /\ pmode' = pmode
                         /\ py' = py
                         /\ \/ pc' = "events" /\ err' = err
                            \/ pc' = "crashed" /\ err' = "callback"
                    ELSE /\ px' = ClickX(e.at)
                         /\ pmode' = mode
                         /\ py' = ClickY(e.at)
                         /\ pc' = pc
                         /\ err' = err
    /\ nev' = nev + 1
    /\ UNCHANGED <<inputVars, fitVars, printed, confirmed, outVars, mainVars, mode, cx, cy, viewVars, img_h, img_w,
                   q_confirm>>

\* RightClick that also keeps the click as the pending corner of the box
RightClickPending ==
    /\ pc = "events"
    /\ mode # "zoom_in"
    /\ \E e \in Offered :
          /\ e.ev = "R"
          /\ cx' = ClickX(e.at)
          /\ cy' = ClickY(e.at)
          /\ px' = ClickX(e.at)
          /\ pmode' = mode
          /\ py' = ClickY(e.at)
    /\ mode' = "zoom_in"
    /\ nev' = nev + 1
    /\ lastev' = Ev("R", {})
    /\ UNCHANGED <<inputVars, fitVars, printed, confirmed, outVars, pc, err, mainVars, points, sb_ends, viewVars,
                   image_data, img, fresh, img_h, img_w, q_confirm>>

\* cv2.EVENT_RBUTTONUP, lines 471-475
RightClick ==
    /\ pc = "events"
    /\ mode # "zoom_in"
    /\ \E e \in Offered :
          /\ e.ev = "R"
          /\ cx' = ClickX(e.at)
          /\ cy' = ClickY(e.at)
    /\ mode' = "zoom_in"
    /\ nev' = nev + 1
    /\ lastev' = Ev("R", {})
    /\ UNCHANGED <<inputVars, fitVars, printed, confirmed, outVars, pc, err, mainVars, points, sb_ends, px, py, pmode, viewVars,
                   image_data, img, fresh, img_h, img_w, q_confirm>>

(***************************************************************************)
(* process_one_image(): the event loop, lines 533-604.  One pass through   *)
(* cv2.waitKey delivers one mouse event or one keystroke.                  *)
(***************************************************************************)
\* The view becomes v and the loop comes back to lines 541-542.
SetView(v) ==
    LET r == make_new_view(v[1], v[2], v[3], v[4], img_h, img_w)
    IN  /\ h_min' = v[1]
        /\ h_max' = v[2]
        /\ w_min' = v[3]
        /\ w_max' = v[4]
        /\ IF r.err = ""
           THEN /\ res_h' = r.res_h
                /\ res_w' = r.res_w
                /\ pc' = "events"
                /\ err' = err
           ELSE /\ res_h' = res_h
                /\ res_w' = res_w
                /\ pc' = "crashed"
                /\ err' = r.err

\* LoopZoomIn that shows the zoomed view on a clean copy of the image
LoopZoomInClean ==
    /\ pc = "events"
    /\ mode = "zoom_in"
    /\ SetView(calc_new_view(h_min, h_max, w_min, w_max, res_h, res_w, cy, cx))
    /\ px' = -1
    /\ pmode' = ""
    /\ py' = -1
    /\ mode' = "box"
    /\ img' = {}
    /\ UNCHANGED <<inputVars, fitVars, printed, lastev, confirmed, outVars, mainVars, points, sb_ends, cx, cy, image_data,
                   fresh, img_h, img_w, q_confirm, nev>>

\* lines 548-549 and 583-588
LoopZoomIn ==
    /\ pc = "events"
    /\ mode = "zoom_in"
    /\ SetView(calc_new_view(h_min, h_max, w_min, w_max, res_h, res_w, cy, cx))
    /\ px' = -1
    /\ pmode' = ""
    /\ py' = -1
    /\ mode' = "box"
    /\ UNCHANGED <<inputVars, fitVars, printed, lastev, confirmed, outVars, mainVars, points, sb_ends, cx, cy, image_data, img,
                   fresh, img_h, img_w, q_confirm, nev>>

\* KeyZoomOut that restores the rows of the view and keeps its columns
KeyZoomOutRowsOnly ==
    /\ pc = "events"
    /\ mode # "zoom_in"
    /\ K("-") \in Offered
    /\ SetView(<<0, img_h, w_min, w_max>>)
    /\ px' = -1
    /\ pmode' = ""
    /\ py' = -1
    /\ mode' = "box"
    /\ nev' = nev + 1
    /\ lastev' = Ev("-", {})
    /\ UNCHANGED <<inputVars, fitVars, printed, confirmed, outVars, mainVars, points, sb_ends, cx, cy, image_data, img,
                   fresh, img_h, img_w, q_confirm>>

\* '-', lines 558-560 and 589-594
KeyZoomOut ==
    /\ pc = "events"
    /\ mode # "zoom_in"
    /\ K("-") \in Offered
    /\ SetView(<<0, img_h, 0, img_w>>)
    /\ px' = -1
    /\ pmode' = ""
    /\ py' = -1
    /\ mode' = "box"
    /\ nev' = nev + 1
    /\ lastev' = Ev("-", {})
    /\ UNCHANGED <<inputVars, fitVars, printed, confirmed, outVars, mainVars, points, sb_ends, cx, cy, image_data, img,
                   fresh, img_h, img_w, q_confirm>>

\* Delete, lines 561-564 and 595-604
KeyReset ==
    /\ pc = "events"
    /\ mode # "zoom_in"
    /\ K("Delete") \in Offered
    /\ SetView(<<0, img_h, 0, img_w>>)
    /\ img' = {}
    /\ px' = -1
    /\ pmode' = ""
    /\ py' = -1
    /\ mode' = "box"
    /\ points' = 1
    /\ image_data' = EmptyDict
    /\ fresh' = {}
    /\ nev' = nev + 1
    /\ lastev' = Ev("Delete", {})
    /\ UNCHANGED <<inputVars, fitVars, printed, confirmed, outVars, mainVars, sb_ends, cx, cy, img_h, img_w, q_confirm>>

\* 'b', lines 565-567
KeyBox ==
    /\ pc = "events"
    /\ mode # "zoom_in"
    /\ K("b") \in Offered
    /\ mode' = "box"
    /\ nev' = nev + 1
    /\ lastev' = Ev("b", {})
    /\ UNCHANGED <<inputVars, fitVars, printed, confirmed, outVars, pc, err, mainVars, viewVars, clickVars, img_h, img_w,
                   q_confirm>>

\* '8', lines 568-572
Key8 ==
    /\ pc = "events"
    /\ mode # "zoom_in"
    /\ K("8") \in Offered
    /\ mode' = "8points"
    /\ points' = 1
    /\ fresh' = {}
    /\ nev' = nev + 1
    /\ lastev' = Ev("8", {})
    /\ UNCHANGED <<inputVars, fitVars, printed, confirmed, outVars, pc, err, mainVars, viewVars, sb_ends, px, py, pmode, cx, cy,
                   image_data, img, img_h, img_w, q_confirm>>

\* '4', lines 573-577
Key4 ==
    /\ pc = "events"
    /\ mode # "zoom_in"
    /\ K("4") \in Offered
    /\ mode' = "4points"
    /\ points' = 1
    /\ fresh' = {}
    /\ nev' = nev + 1
    /\ lastev' = Ev("4", {})
    /\ UNCHANGED <<inputVars, fitVars, printed, confirmed, outVars, pc, err, mainVars, viewVars, sb_ends, px, py, pmode, cx, cy,
                   image_data, img, img_h, img_w, q_confirm>>

\* 's', lines 578-580
KeyS ==
    /\ pc = "events"
    /\ mode # "zoom_in"
    /\ K("s") \in Offered
    /\ mode' = "scale_bar"
    /\ nev' = nev + 1
    /\ lastev' = Ev("s", {})
    /\ UNCHANGED <<inputVars, fitVars, printed, confirmed, outVars, pc, err, mainVars, viewVars, clickVars, img_h, img_w,
                   q_confirm>>

\* 'n', lines 555-557 and 581-582
KeyNext ==
    /\ pc = "events"
    /\ mode # "zoom_in"
    /\ mode' = "next"
    /\ pc' = "finalize"
    /\ lastev' = Ev("n", {})
    /\ UNCHANGED <<inputVars, fitVars, printed, confirmed, outVars, err, mainVars, viewVars, clickVars, img_h, img_w,
                   q_confirm, nev>>

\* Esc, lines 552-554 and 581-582
KeyQuit ==
    /\ pc = "events"
    /\ mode # "zoom_in"
    /\ mode' = "quit"
    /\ pc' = "finalize"
    /\ lastev' = Ev("Esc", {})
    /\ UNCHANGED <<inputVars, fitVars, printed, confirmed, outVars, err, mainVars, viewVars, clickVars, img_h, img_w,
                   q_confirm, nev>>

(***************************************************************************)
(* The measurement finalizer, lines 606-702.  Each step takes and gives    *)
(* [err, data]: the exception raised so far ("" if none) and image_data.   *)
(* Values the code holds as floats are kept as the exact expressions they  *)
(* round: a distance as the root of [sq], a quotient or product as the     *)
(* record of its operands.                                                 *)
(***************************************************************************)
Ok(data) == [err |-> "", data |-> data]

Fail(e, data) == [err |-> e, data |-> data]

\* lines 606-607
FinBox(data) ==
    IF "im_box_h1" \in DOMAIN data THEN Put(data, "im_status", "box") ELSE data

\* lines 611-635; ans is <<units, reported_sb_length>>
FinScale(data, ans) ==
    IF "im_p_scale_bar_1" \in DOMAIN data /\ "im_p_scale_bar_2" \in DOMAIN data
    THEN LET adjusted_sb_length == IF ans[1] = "u" THEN Rat(ans[2], 1000) ELSE Rat(ans[2], 1)
             d == distance(data["im_p_scale_bar_1"], data["im_p_scale_bar_2"])
             d1 == Put(data, "im_sb_length_mm", adjusted_sb_length)
         IN  IF d.sq = 0 THEN Fail("ZeroDivisionError", d1)
             ELSE Ok(Update(d1, [im_mm_per_px |-> [mm |-> adjusted_sb_length, px |-> d],
                                 im_sb_length_px |-> d]))
    ELSE Ok(data)

\* lines 641-643
FinRelative(data) ==
    LET d1 == Put(data, "im_status", "relative")
    IN  IF ~({"im_p_length_1", "im_p_length_2"} \subseteq DOMAIN data) THEN Fail("KeyError", d1)
        ELSE LET d2 == Put(d1, "im_length_straight_px",
                           distance(data["im_p_length_1"], data["im_p_length_2"]))
             IN  IF ~({"im_p_midpoint_1", "im_p_midpoint_2"} \subseteq DOMAIN data)
                 THEN Fail("KeyError", d2)
                 ELSE Ok(Put(d2, "im_width_px",
                             distance(data["im_p_midpoint_1"], data["im_p_midpoint_2"])))

\* lines 645-653
FinAsym(data) ==
    IF ~({"im_p_1st_quart_1", "im_p_1st_quart_2", "im_p_3rd_quart_1", "im_p_3rd_quart_2"}
            \subseteq DOMAIN data)
    THEN Fail("KeyError", data)
    ELSE LET quartile_len_1 == distance(data["im_p_1st_quart_1"], data["im_p_1st_quart_2"])
             quartile_len_3 == distance(data["im_p_3rd_quart_1"], data["im_p_3rd_quart_2"])
             longer_quartile == IF quartile_len_3.sq > quartile_len_1.sq
                                THEN quartile_len_3 ELSE quartile_len_1
             shorter_quartile == IF quartile_len_3.sq > quartile_len_1.sq
                                 THEN quartile_len_1 ELSE quartile_len_3
         IN  IF shorter_quartile.sq = 0 THEN Fail("ZeroDivisionError", data)
             ELSE Ok(Put(data, "im_asym",
                         [longer |-> longer_quartile, shorter |-> shorter_quartile]))

\* the cosine of line 664, (x_v1*x_v2 + y_v1*y_v2) / radius**2, as a fraction
CurvCos(p1, p2, c, r) ==
    LET x_v1 == RatSub(RatInt(p1[1]), c.x)
        y_v1 == RatSub(RatInt(p1[2]), c.y)
        x_v2 == RatSub(RatInt(p2[1]), c.x)
        y_v2 == RatSub(RatInt(p2[2]), c.y)
    IN  RatDiv(RatAdd(RatMul(x_v1, x_v2), RatMul(y_v1, y_v2)), r.sq)

\* line 669: center_displacement_px > radius
CurvFlipped(p1, p2, egg_middle, r) ==
    RatLess(r.sq, RatInt(Dist2(egg_middle, midpoint(p1, p2))))

\* line 669: 2*3.1415, from which the angle is subtracted when the
\* displacement is greater than the radius
CurvMinuend == Rat(2 * 31415, 10000)

\* lines 657-675; the angle is arccos(acos), or minuend - arccos(acos) when
\* flipped
FinCurvature(data) ==
    IF "im_radius_px" \notin DOMAIN data THEN Fail("KeyError", data)
    ELSE IF data["im_radius_px"].dne
    THEN Ok(Update(data, [im_curvature_deg |-> [zero |-> TRUE],
                          im_curvature_rad |-> [zero |-> TRUE]]))
    ELSE IF ~({"im_p_circle_center", "im_p_egg_middle"} \subseteq DOMAIN data)
    THEN Fail("KeyError", data)
    ELSE IF data["im_p_circle_center"].dne THEN Fail("TypeError", data)
    ELSE LET r == data["im_radius_px"]
             curvature_rad ==
                 [zero |-> FALSE,
                  acos |-> CurvCos(data["im_p_length_1"], data["im_p_length_2"],
                                   data["im_p_circle_center"], r),
                  flipped |-> CurvFlipped(data["im_p_length_1"], data["im_p_length_2"],
                                          data["im_p_egg_middle"], r),
                  minuend |-> CurvMinuend]
         IN  Ok(Update(data, [im_curvature_deg |-> curvature_rad,
                              im_curvature_rad |-> curvature_rad,
                              im_length_curved_px |-> [rad |-> curvature_rad, radius |-> r]]))

\* lines 679-693
FinAbsolute(data, pts) ==
    IF "im_mm_per_px" \in DOMAIN data
    THEN LET mm_per_px == data["im_mm_per_px"]
             straight == [scale |-> mm_per_px,
                          px |-> distance(data["im_p_length_1"], data["im_p_length_2"])]
             d1 == Update(data,
                     [im_status |-> "absolute",
                      im_length_straight |-> straight,
                      im_width |-> [scale |-> mm_per_px,
                                    px |-> distance(data["im_p_midpoint_1"],
                                                    data["im_p_midpoint_2"])]])
         IN  IF pts # 9 THEN d1
             ELSE IF data["im_radius_px"].dne
             THEN Update(d1, [im_radius_mm |-> DNE, im_length_curved |-> straight])
             ELSE LET radius_mm == [scale |-> mm_per_px, px |-> data["im_radius_px"]]
                  IN  Update(d1, [im_radius_mm |-> radius_mm,
                                  im_length_curved |->
                                      [rad |-> data["im_curvature_rad"], radius |-> radius_mm]])
    ELSE data

\* lines 639-693
FinShape(data, pts) ==
    IF pts = 5 \/ pts = 9
    THEN LET a == FinRelative(data)
             b == IF a.err = "" /\ pts = 9 THEN FinAsym(a.data) ELSE a
             c == IF b.err = "" /\ pts = 9 THEN FinCurvature(b.data) ELSE b
         IN  IF c.err = "" THEN Ok(FinAbsolute(c.data, pts)) ELSE c
    ELSE Ok(data)

\* Finalizer with the box status set last, after the shape parameters
FinalizerBoxLast(data, pts, ans) ==
    LET a == FinScale(data, ans)
        b == IF a.err = "" THEN FinShape(a.data, pts) ELSE a
        c == IF b.err = "" THEN Ok(FinBox(b.data)) ELSE b
    IN  IF c.err = "" /\ DOMAIN c.data = {} THEN Ok([im_status |-> "none"]) ELSE c

\* lines 606-702, up to the questions
Finalizer(data, pts, ans) ==
    LET a == FinScale(FinBox(data), ans)
        b == IF a.err = "" THEN FinShape(a.data, pts) ELSE a
    IN  IF b.err = "" /\ DOMAIN b.data = {} THEN Ok([im_status |-> "none"]) ELSE b

\* lines 611-635: the first end is stored and the second is not
OneEndWarned(data) ==
    "im_p_scale_bar_1" \in DOMAIN data /\ "im_p_scale_bar_2" \notin DOMAIN data

\* the operator is asked for the scale bar only when both ends are stored
AsksScale == {"im_p_scale_bar_1", "im_p_scale_bar_2"} \subseteq DOMAIN image_data

\* lines 606-702: after 'n' or Esc
Finalize ==
    /\ pc = "finalize"
    /\ \E ans \in IF AsksScale THEN SbAnswers ELSE {<<"m", 0>>} :
          LET r == Finalizer(image_data, points, ans)
          IN  /\ image_data' = r.data
              /\ err' = r.err
              /\ pc' = IF r.err # "" THEN "crashed"
                       ELSE IF DOMAIN image_data = {} /\ r.data = [im_status |-> "none"]
                       THEN "returned"
                       ELSE "questions"
    /\ printed' = printed \cup (IF OneEndWarned(image_data) THEN {<<"one endpoint", j + 1>>} ELSE {})
    /\ UNCHANGED <<inputVars, fitVars, lastev, confirmed, outVars, mainVars, mode, viewVars, points, sb_ends, px, py, pmode,
                   cx, cy, img, fresh, img_h, img_w, q_confirm, nev>>

\* lines 709-786: the qualitative answers, then the summary is printed; the
\* summary reads the straight length whenever points >= 5
AnswerQuestions ==
    /\ pc = "questions"
    /\ \E a \in QAnswers :
          LET d1 == IF a[5] = "n" THEN image_data
                    ELSE Put(image_data, "im_magnification", a[5])
              d2 == Update(d1, [im_q_image_type |-> a[1], im_q_development |-> a[2],
                                im_q_operculum |-> a[3], im_q_geo_pattern |-> a[4]])
              shown == IF points >= 5
                       THEN IF "im_mm_per_px" \in DOMAIN d2
                            THEN {"im_length_straight", "im_width"}
                            ELSE {"im_length_straight_px", "im_width_px"}
                       ELSE {}
          IN  /\ image_data' = d2
              /\ IF shown \subseteq DOMAIN d2
                 THEN pc' = "confirm" /\ err' = err
                 ELSE pc' = "crashed" /\ err' = "KeyError"
    /\ UNCHANGED <<inputVars, fitVars, printed, lastev, confirmed, outVars, mainVars, mode, viewVars, points, sb_ends, px, py, pmode,
                   cx, cy, img, fresh, img_h, img_w, q_confirm, nev>>

\* ConfirmNo that saves the whole image as the crop before returning
ConfirmNoCrops ==
    /\ pc = "confirm"
    /\ q_confirm' = "n"
    /\ image_data' = EmptyDict
    /\ pc' = "returned"
    /\ croppeds' = Put(croppeds, BaseName(Entry), <<0, img_h, 0, img_w>>)
    /\ UNCHANGED <<inputVars, fitVars, printed, lastev, confirmed, store, overviews, err, mainVars, mode, viewVars, points, sb_ends, px, py, pmode,
                   cx, cy, img, fresh, img_h, img_w, nev>>

\* ConfirmNo that returns what was recorded instead of an empty dict
ConfirmNoKeeps ==
    /\ pc = "confirm"
    /\ q_confirm' = "n"
    /\ pc' = "returned"
    /\ UNCHANGED <<inputVars, fitVars, printed, lastev, confirmed, outVars, err, mainVars, mode, viewVars,
                   clickVars, img_h, img_w, nev>>

\* ConfirmNo that saves the annotated overview before it returns
ConfirmNoWrites ==
    /\ pc = "confirm"
    /\ q_confirm' = "n"
    /\ image_data' = EmptyDict
    /\ overviews' = Put(overviews, BaseName(Entry), img)
    /\ pc' = "returned"
    /\ UNCHANGED <<inputVars, fitVars, printed, lastev, confirmed, store, croppeds, err, mainVars, mode,
                   viewVars, points, sb_ends, px, py, pmode, cx, cy, img, fresh, img_h, img_w, nev>>

\* lines 791-801: 'n' to 'Is this correct?'
ConfirmNo ==
    /\ pc = "confirm"
    /\ q_confirm' = "n"
    /\ image_data' = EmptyDict
    /\ pc' = "returned"
    /\ UNCHANGED <<inputVars, fitVars, printed, lastev, confirmed, outVars, err, mainVars, mode, viewVars, points, sb_ends, px, py, pmode,
                   cx, cy, img, fresh, img_h, img_w, nev>>

\* lines 811-812: the slice of the reloaded image has no pixel
CropEmpty(data) ==
    \/ SliceLen(data["im_box_h1"], data["im_box_h2"], img_h) = 0
    \/ SliceLen(data["im_box_w1"], data["im_box_w2"], img_w) = 0

\* lines 802-816: 'y'; the overview is written, then the crop is cut out of
\* the reloaded image.  Whether cv2.imwrite raises on a crop without pixels
\* or writes nothing usable is the library's choice, so both follow.
ConfirmYes ==
    /\ pc = "confirm"
    /\ q_confirm' = "y"
    /\ overviews' = Put(overviews, BaseName(Entry), img)
    /\ img' = {}
    /\ IF {"im_box_h1", "im_box_h2", "im_box_w1", "im_box_w2"} \subseteq DOMAIN image_data
       THEN \/ /\ croppeds' = Put(croppeds, BaseName(Entry),
                                  <<image_data["im_box_h1"], image_data["im_box_h2"],
                                    image_data["im_box_w1"], image_data["im_box_w2"]>>)
               /\ pc' = "returned"
               /\ err' = err
            \/ /\ CropEmpty(image_data)
               /\ croppeds' = croppeds
               /\ pc' = "crashed"
               /\ err' = "cv2.error"
       ELSE /\ croppeds' = croppeds
            /\ pc' = "crashed"
            /\ err' = "KeyError"
    /\ confirmed' = Put(confirmed, j + 1, image_data)
    /\ UNCHANGED <<inputVars, fitVars, printed, lastev, store, mainVars, mode, viewVars, points, sb_ends, px, py, pmode,
                   cx, cy, image_data, fresh, img_h, img_w, nev>>

Next ==
    \/ MainRefuse
    \/ MainRead
    \/ MainEnd
    \/ MainIndexError
    \/ MainSkip
    \/ MainOpenMissing
    \/ MainOpenImage
    \/ MainQuit
    \/ MainMerge
    \/ LeftClick
    \/ RightClick
    \/ LoopZoomIn
    \/ KeyZoomOut
    \/ KeyReset
    \/ KeyBox
    \/ Key8
    \/ Key4
    \/ KeyS
    \/ KeyNext
    \/ KeyQuit
    \/ Finalize
    \/ AnswerQuestions
    \/ ConfirmNo
    \/ ConfirmYes

Spec == Init /\ [][Next]_vars

(***************************************************************************)
(* Persistence: what reaches tmp_out_file.txt and the output directories.  *)
(***************************************************************************)
\* C1: when the operator presses Quit (Esc) during an entry and then confirms
\* that entry, the run does not end before the entry's derived fields are
\* merged into its record and the record is in the checkpoint store.
C1_QuitConfirmedEntryPersisted ==
    (pc = "done" /\ mode = "quit" /\ q_confirm = "y") =>
        /\ store.exists
        /\ j + 1 \in DOMAIN confirmed
        /\ j + 1 <= Len(store.entries)
        /\ store.entries[j + 1] = Update(Decode(lines)[j + 1], confirmed[j + 1])

\* C2: once main() has dealt with a confirmed entry, the checkpoint store
\* holds every decoded record of the input, in input order, with the fields
\* of each confirmed entry merged in.
C2_CheckpointRewrittenAfterConfirm ==
    (pc \in {"loop", "done"} /\ DOMAIN confirmed # {}) =>
        /\ store.exists
        /\ Len(store.entries) = Len(Decode(lines))
        /\ \A k \in 1..Len(store.entries) :
              /\ BaseName(store.entries[k]) = BaseName(Decode(lines)[k])
              /\ DOMAIN Decode(lines)[k] \subseteq DOMAIN store.entries[k]
              /\ k \in DOMAIN confirmed =>
                    \A f \in DOMAIN confirmed[k] :
                        /\ f \in DOMAIN store.entries[k]
                        /\ store.entries[k][f] = confirmed[k][f]

\* C3 (as amended): in the store this run wrote, the record of an entry the
\* operator did not confirm is the record as read, or the record as read
\* with im_status "missing" (its image is not in the image directory), or
\* the record as read with im_status "none" (its session recorded nothing).
C3_UnconfirmedOnlyStatus ==
    (store.exists /\ number_of_entries > 0) =>
        \A k \in 1..Len(store.entries) :
            k \notin DOMAIN confirmed =>
                \/ store.entries[k] = Decode(lines)[k]
                \/ /\ BaseName(Decode(lines)[k]) \notin DOMAIN imgdir
                   /\ store.entries[k] = Update(Decode(lines)[k], [im_status |-> "missing"])
                \/ /\ BaseName(Decode(lines)[k]) \in DOMAIN imgdir
                   /\ store.entries[k] = Update(Decode(lines)[k], [im_status |-> "none"])

\* C3 as stated: apart from im_status "missing" for an entry whose image is
\* missing, the record of an unconfirmed entry has no field added or changed.
C3_UnconfirmedOnlyMissing ==
    (store.exists /\ number_of_entries > 0) =>
        \A k \in 1..Len(store.entries) :
            k \notin DOMAIN confirmed =>
                \/ store.entries[k] = Decode(lines)[k]
                \/ /\ BaseName(Decode(lines)[k]) \notin DOMAIN imgdir
                   /\ store.entries[k] = Update(Decode(lines)[k], [im_status |-> "missing"])

\* a record the operator said 'n' to has been written to the store, and so
\* has one whose session recorded nothing
C3_Witness ==
    /\ pc = "loop"
    /\ q_confirm = "n"
    /\ store.exists
    /\ \E k \in 1..Len(store.entries) :
          /\ k \notin DOMAIN confirmed
          /\ store.entries[k] = Update(Decode(lines)[k], [im_status |-> "none"])

\* C4 (as amended): after 'n' to the confirmation the entry's record is as
\* it was read, nothing was or is written to the output directories for it,
\* and main() goes on to the next record, unless the session was ended with
\* Esc, in which case the run ends with the store untouched.
C4_DeclinedLeavesRecord ==
    [][ (pc = "returned" /\ q_confirm = "n") =>
            /\ image_data = EmptyDict
            /\ file_list[j + 1] = Decode(lines)[j + 1]
            /\ BaseName(Entry) \notin (DOMAIN overviews \cup DOMAIN croppeds)
            /\ file_list' = file_list
            /\ overviews' = overviews
            /\ croppeds' = croppeds
            /\ IF mode = "quit"
               THEN pc' = "done" /\ store' = store
               ELSE /\ pc' = "loop"
                    /\ j' = j + 1
                    /\ store' = [exists |-> TRUE, entries |-> file_list] ]_vars

\* C4 as stated: after 'n' the record is as read, no artifact is written,
\* and main() goes on to the next record.
C4_DeclinedGoesOn ==
    [][ (pc = "returned" /\ q_confirm = "n") =>
            /\ image_data = EmptyDict
            /\ file_list[j + 1] = Decode(lines)[j + 1]
            /\ BaseName(Entry) \notin (DOMAIN overviews \cup DOMAIN croppeds)
            /\ file_list' = file_list
            /\ overviews' = overviews
            /\ croppeds' = croppeds
            /\ pc' = "loop"
            /\ j' = j + 1 ]_vars

\* the operator has said 'n' to an entry with landmarks, ended with 'n',
\* and another record follows
C4_Witness ==
    /\ pc = "returned"
    /\ q_confirm = "n"
    /\ mode = "next"
    /\ img # {}
    /\ j + 1 < Len(file_list)

(***************************************************************************)
(* The session: viewport, Reset, mode selection, extra clicks.             *)
(***************************************************************************)
\* C5: at every moment of a session the viewport lies inside the original
\* image: 0 <= h_min <= h_max <= image height, 0 <= w_min <= w_max <= width.
C5_ViewInsideImage ==
    (pc \in {"events", "finalize", "questions", "confirm"}) =>
        /\ 0 <= h_min /\ h_min <= h_max /\ h_max <= img_h
        /\ 0 <= w_min /\ w_min <= w_max /\ w_max <= img_w

\* C6: right after Reset (Delete) the session is as process_one_image()
\* creates it: no landmark, no annotation, Box mode, no pending click, the
\* whole image in view, and every click counter, sb_ends included, at 1.
C6_ResetEqualsFresh ==
    (pc = "events" /\ lastev.ev = "Delete") =>
        /\ image_data = EmptyDict
        /\ img = {}
        /\ mode = "box"
        /\ px = -1 /\ py = -1
        /\ points = 1
        /\ sb_ends = 1
        /\ <<h_min, h_max, w_min, w_max>> = <<0, img_h, 0, img_w>>
        /\ <<res_h, res_w>> = <<make_new_view(0, img_h, 0, img_w, img_h, img_w).res_h,
                                make_new_view(0, img_h, 0, img_w, img_h, img_w).res_w>>

\* C7: right after '8' or '4' the outline click index is 1 and image_data
\* holds no outline landmark; right after 's' the scale-bar index is 1 and
\* image_data holds no scale-bar end.
C7_SelectionDiscards ==
    (pc = "events") =>
        /\ lastev.ev \in {"8", "4"} =>
              /\ points = 1
              /\ DOMAIN image_data \cap
                    {"im_p_length_1", "im_p_length_2", "im_p_midpoint_1", "im_p_midpoint_2",
                     "im_p_egg_middle", "im_p_circle_center", "im_radius_px",
                     "im_p_1st_quart_1", "im_p_1st_quart_2",
                     "im_p_3rd_quart_1", "im_p_3rd_quart_2"} = {}
        /\ lastev.ev = "s" =>
              /\ sb_ends = 1
              /\ DOMAIN image_data \cap {"im_p_scale_bar_1", "im_p_scale_bar_2"} = {}

\* C8: a left click made when the mode's clicks are all recorded (the click
\* before it stored the rectangle in Box mode or the second end in ScaleBar
\* mode, or the outline index is past 4 in FourPoint mode or past 8 in
\* EightPoint mode) changes no landmark, counter or annotation.
C8_ExtraClicksIgnored ==
    [][ ( /\ pc = "events"
          /\ nev' = nev + 1
          /\ lastev'.ev = "L"
          /\ \/ mode = "4points" /\ points = 5
             \/ mode = "8points" /\ points = 9
             \/ mode = "box" /\ lastev.ev = "L" /\ "im_box_h1" \in lastev.keys
             \/ mode = "scale_bar" /\ lastev.ev = "L" /\ "im_p_scale_bar_2" \in lastev.keys )
        => /\ image_data' = image_data
           /\ points' = points
           /\ sb_ends' = sb_ends
           /\ img' = img ]_vars

(***************************************************************************)
(* The finalizer.                                                          *)
(***************************************************************************)
\* C9: when the finalizer starts with a complete outline (points is 5 or 9)
\* every landmark it reads for the shape parameters was stored in the
\* current pass: the four axis points, and for 9 also the quartile points,
\* the egg middle, the circle centre and the radius.
C9_FinalizerReadsCurrentPass ==
    (pc = "finalize" /\ points \in {5, 9}) =>
        /\ {"im_p_length_1", "im_p_length_2", "im_p_midpoint_1", "im_p_midpoint_2"}
              \subseteq fresh
        /\ points = 9 =>
              {"im_p_1st_quart_1", "im_p_1st_quart_2", "im_p_3rd_quart_1", "im_p_3rd_quart_2",
               "im_p_egg_middle", "im_p_circle_center", "im_radius_px"} \subseteq fresh

\* C10 (as amended): after the finalizer, im_status is "absolute" when the
\* scale was calibrated and 4 or 8 outline points were collected, otherwise
\* "relative" when 4 or 8 outline points were collected, otherwise "box"
\* when the Box landmarks exist.
C10_StatusOrdering ==
    (pc \in {"questions", "confirm"}) =>
        LET status == IF "im_status" \in DOMAIN image_data
                      THEN image_data["im_status"] ELSE "unset"
        IN  IF "im_mm_per_px" \in DOMAIN image_data /\ points \in {5, 9}
            THEN status = "absolute"
            ELSE IF points \in {5, 9}
            THEN status = "relative"
            ELSE ("im_box_h1" \in DOMAIN image_data) => status = "box"

\* C10 as stated: im_status is "absolute" whenever the scale was calibrated,
\* otherwise "relative" when 4 or 8 outline points were collected, otherwise
\* "box" when the Box landmarks exist.
C10_AbsoluteWheneverCalibrated ==
    (pc \in {"questions", "confirm"}) =>
        LET status == IF "im_status" \in DOMAIN image_data
                      THEN image_data["im_status"] ELSE "unset"
        IN  IF "im_mm_per_px" \in DOMAIN image_data
            THEN status = "absolute"
            ELSE IF points \in {5, 9}
            THEN status = "relative"
            ELSE ("im_box_h1" \in DOMAIN image_data) => status = "box"

\* a box, eight outline points and a calibrated scale bar give "absolute"
C10_Witness ==
    /\ pc = "confirm"
    /\ points = 9
    /\ {"im_box_h1", "im_mm_per_px"} \subseteq DOMAIN image_data
    /\ image_data["im_status"] = "absolute"

\* C11: when the finalizer runs with exactly one scale-bar end recorded, the
\* session goes on (no exception), the warning about the single end is
\* printed, no im_mm_per_px and no calibrated value is stored, the status
\* is not "absolute", and it is "relative" when points is 5 or 9.
C11_OneEndSkipsCalibration ==
    [][ ( /\ pc = "finalize"
          /\ Cardinality(DOMAIN image_data \cap {"im_p_scale_bar_1", "im_p_scale_bar_2"}) = 1 )
        => /\ pc' # "crashed"
           /\ <<"one endpoint", j + 1>> \in printed'
           /\ DOMAIN image_data' \cap
                 {"im_mm_per_px", "im_sb_length_mm", "im_sb_length_px", "im_length_straight",
                  "im_width", "im_radius_mm", "im_length_curved"} = {}
           /\ ("im_status" \in DOMAIN image_data' => image_data'["im_status"] # "absolute")
           /\ (points \in {5, 9} =>
                  "im_status" \in DOMAIN image_data' /\ image_data'["im_status"] = "relative")
      ]_vars

(***************************************************************************)
(* get_circle_center on its own: any three points of the grid, then what   *)
(* the fourth EightPoint click stores (lines 396-404) and what the         *)
(* finalizer makes of it (lines 655-675).                                  *)
(***************************************************************************)
FitPoints == (0..MaxCoord) \X (0..MaxCoord)

InitFit ==
    /\ lines = <<>>
    /\ imgdir = EmptyDict
    /\ script = <<>>
    /\ store = NoFile
    /\ overviews = EmptyDict
    /\ croppeds = EmptyDict
    /\ pc = "fit"
    /\ err = ""
    /\ file_list = <<>>
    /\ number_of_entries = 0
    /\ j = 0
    /\ image_dict = EmptyDict
    /\ mode = "8points"
    /\ points = 5
    /\ sb_ends = 1
    /\ px = -1
    /\ pmode = ""
    /\ py = -1
    /\ cx = -1
    /\ cy = -1
    /\ h_min = 0
    /\ h_max = MaxCoord + 1
    /\ w_min = 0
    /\ w_max = MaxCoord + 1
    /\ res_h = MaxCoord + 1
    /\ res_w = MaxCoord + 1
    /\ image_data = EmptyDict
    /\ img = {}
    /\ img_h = MaxCoord + 1
    /\ img_w = MaxCoord + 1
    /\ q_confirm = ""
    /\ nev = 0
    /\ fresh = {}
    /\ lastev = Ev("", {})
    /\ confirmed = EmptyDict
    /\ printed = {}
    /\ fit_in \in FitPoints \X FitPoints \X FitPoints
    /\ fit_out = [kind |-> "none"]

\* lines 396-404: egg_middle and the poles go to get_circle_center, and its
\* results are stored unless it raised
FitCall ==
    /\ pc = "fit"
    /\ fit_out' = get_circle_center(fit_in[1], fit_in[2], fit_in[3])
    /\ IF fit_out'.kind = "ZeroDivisionError"
       THEN /\ pc' = "crashed"
            /\ err' = "ZeroDivisionError"
            /\ image_data' = image_data
       ELSE /\ pc' = "fitted"
            /\ err' = err
            /\ image_data' =
                  [im_p_egg_middle |-> fit_in[1],
                   im_p_length_1 |-> fit_in[2],
                   im_p_length_2 |-> fit_in[3],
                   im_p_circle_center |->
                       IF fit_out'.kind = "DNE" THEN DNE ELSE fit_out'.center,
                   im_radius_px |->
                       IF fit_out'.kind = "DNE" THEN DNE ELSE fit_out'.radius]
    /\ UNCHANGED <<inputVars, printed, fit_in, outVars, mainVars, mode, viewVars, points,
                   sb_ends, px, py, pmode, cx, cy, img, fresh, img_h, img_w, q_confirm, nev, lastev,
                   confirmed>>

\* lines 655-675: the finalizer's curvature from what the fit stored
FitCurvature ==
    /\ pc = "fitted"
    /\ LET r == FinCurvature(image_data)
       IN  /\ image_data' = r.data
           /\ err' = r.err
           /\ pc' = IF r.err = "" THEN "curved" ELSE "crashed"
    /\ UNCHANGED <<inputVars, printed, fitVars, outVars, mainVars, mode, viewVars, points,
                   sb_ends, px, py, pmode, cx, cy, img, fresh, img_h, img_w, q_confirm, nev, lastev,
                   confirmed>>

NextFit ==
    \/ FitCall
    \/ FitCurvature

SpecFit == InitFit /\ [][NextFit]_vars

(***************************************************************************)
(* The finalizer on its own (lines 606-702): landmarks from a set of       *)
(* points that holds the worked example of the calibration, a complete     *)
(* FourPoint or EightPoint outline and both ends of the scale bar.         *)
(***************************************************************************)
CalPoints == {<<0, 0>>, <<100, 0>>, <<50, -10>>, <<50, 10>>, <<0, 50>>}

\* image_data after four outline clicks and two scale-bar clicks
CalFour ==
    { [im_p_length_1 |-> l1, im_p_length_2 |-> l2,
       im_p_midpoint_1 |-> m1, im_p_midpoint_2 |-> m2,
       im_p_scale_bar_1 |-> s1, im_p_scale_bar_2 |-> s2] :
         l1 \in CalPoints, l2 \in CalPoints, m1 \in CalPoints, m2 \in CalPoints,
         s1 \in CalPoints, s2 \in CalPoints }

\* image_data after eight outline clicks on the poles and midline of the
\* example (lines 396-404 store the middle and the circle) and two
\* scale-bar clicks
CalEight ==
    LET l1 == <<0, 0>>
        l2 == <<100, 0>>
        m1 == <<50, -10>>
        m2 == <<50, 10>>
        egg_middle == midpoint(m2, m1)
        f == get_circle_center(egg_middle, l1, l2)
    IN  { [im_p_length_1 |-> l1, im_p_length_2 |-> l2,
           im_p_midpoint_1 |-> m1, im_p_midpoint_2 |-> m2,
           im_p_egg_middle |-> egg_middle,
           im_p_circle_center |-> IF f.kind = "circle" THEN f.center ELSE DNE,
           im_radius_px |-> IF f.kind = "circle" THEN f.radius ELSE DNE,
           im_p_1st_quart_1 |-> q[1], im_p_1st_quart_2 |-> q[2],
           im_p_3rd_quart_1 |-> q[3], im_p_3rd_quart_2 |-> q[4],
           im_p_scale_bar_1 |-> s1, im_p_scale_bar_2 |-> s2] :
             q \in {<<0, 0>>, <<0, 50>>} \X {<<0, 0>>, <<0, 50>>}
                     \X {<<0, 0>>, <<0, 50>>} \X {<<0, 0>>, <<0, 50>>},
             s1 \in CalPoints, s2 \in CalPoints }

InitCal ==
    /\ lines = <<>>
    /\ imgdir = EmptyDict
    /\ script = <<>>
    /\ store = NoFile
    /\ overviews = EmptyDict
    /\ croppeds = EmptyDict
    /\ pc = "finalize"
    /\ err = ""
    /\ file_list = <<>>
    /\ number_of_entries = 0
    /\ j = 0
    /\ image_dict = EmptyDict
    /\ \/ /\ mode = "4points"
          /\ points = 5
          /\ image_data \in CalFour
       \/ /\ mode = "8points"
          /\ points = 9
          /\ image_data \in CalEight
    /\ sb_ends = 2
    /\ px = -1
    /\ pmode = ""
    /\ py = -1
    /\ cx = -1
    /\ cy = -1
    /\ h_min = 0
    /\ h_max = 101
    /\ w_min = 0
    /\ w_max = 101
    /\ res_h = 101
    /\ res_w = 101
    /\ img = {}
    /\ img_h = 101
    /\ img_w = 101
    /\ q_confirm = ""
    /\ nev = 0
    /\ fresh = {}
    /\ lastev = Ev("", {})
    /\ confirmed = EmptyDict
    /\ printed = {}
    /\ fit_in = <<>>
    /\ fit_out = [kind |-> "none"]

SpecCal == InitCal /\ [][Finalize]_vars

\* C12: for every triple of points get_circle_center returns a circle or
\* 'DNE' and raises nothing, and after 'DNE' the finalizer stores curvature
\* zero without failing.
C12_FitNeverDivides ==
    /\ pc # "fit" => fit_out.kind \in {"circle", "DNE"}
    /\ (pc \in {"curved", "crashed"} /\ fit_out.kind = "DNE") =>
          /\ pc = "curved"
          /\ image_data["im_curvature_deg"] = [zero |-> TRUE]
          /\ image_data["im_curvature_rad"] = [zero |-> TRUE]

(***************************************************************************)
(* The record loop of main().                                              *)
(***************************************************************************)
\* C13: when the input that was read has lines that cannot be decoded,
\* each is reported, the loop never fails on their account (no
\* IndexError), and a run that is not ended with Esc ends normally having
\* gone through every decoded record.
C13_MalformedLinesSkipped ==
    (number_of_entries > 0 /\ \E k \in 1..Len(lines) : ~lines[k].ok) =>
        /\ pc # "start" =>
              \A k \in 1..Len(lines) : ~lines[k].ok => <<"problem line", k>> \in printed
        /\ err # "IndexError"
        /\ (pc = "done" /\ mode # "quit") => j = Len(file_list)

\* C14: a run that finds tmp_out_file.txt at its start reads no input,
\* starts no session and writes nothing: it can only end, with the file as
\* it was and the warning printed.
C14_ExistingCheckpointRefuses ==
    (pc = "start" /\ store.exists) =>
        [](/\ pc \in {"start", "done"}
           /\ store = OldStore
           /\ file_list = <<>>
           /\ number_of_entries = 0
           /\ mode = "unset"
           /\ image_data = EmptyDict
           /\ overviews = EmptyDict
           /\ croppeds = EmptyDict
           /\ pc = "done" => <<"cannot over-write", 0>> \in printed)

\* the run has ended on the existing file
C14_Witness ==
    /\ pc = "done"
    /\ store = OldStore
    /\ number_of_entries = 0
    /\ <<"cannot over-write", 0>> \in printed

\* C15: at each record the loop reaches, process_one_image is called
\* exactly when the record has an image page ('i'), has no im_status or
\* im_status "missing", and has no problem flag among 'no_taxonomy',
\* 'no_name', 'order'; otherwise the loop moves on with the record, the
\* store and the output directories as they were.
C15_SessionIffEligible ==
    [][ (pc = "loop" /\ j < number_of_entries /\ j < Len(file_list)) =>
          LET rec == file_list[j + 1]
              has_page == "i" \in DOMAIN rec
              open == IF "im_status" \in DOMAIN rec
                      THEN rec["im_status"] = "missing" ELSE TRUE
              excluded == IF "problem" \in DOMAIN rec
                          THEN rec["problem"] \in {"no_taxonomy", "no_name", "order"}
                          ELSE FALSE
          IN  IF has_page /\ open /\ ~excluded
              THEN /\ pc' \in {"events", "returned"}
                   /\ j' = j
                   /\ mode' \in {"box", "next"}
              ELSE /\ pc' = "loop"
                   /\ j' = j + 1
                   /\ mode' = mode
                   /\ file_list' = file_list
                   /\ store' = store
                   /\ overviews' = overviews
                   /\ croppeds' = croppeds ]_vars

\* a record with a status was passed over as it was, and a later record with
\* a problem flag that is not excluded has a session
C15_Witness ==
    /\ pc = "events"
    /\ j > 0
    /\ "problem" \in DOMAIN file_list[j + 1]
    /\ "im_status" \in DOMAIN Decode(lines)[1]
    /\ file_list[1] = Decode(lines)[1]

\* C16: when the image of an eligible record is not in the image directory,
\* process_one_image returns at once with im_status "missing" as its only
\* result and mode 'next', no event of the operator is taken and no file is
\* written; main() then adds that status to the record, as its only change,
\* writes the store and goes on to the next record.
C16_MissingImageMarked ==
    [][ /\ ( /\ pc = "loop" /\ j < number_of_entries /\ j < Len(file_list)
             /\ Eligible(file_list[j + 1])
             /\ BaseName(file_list[j + 1]) \notin DOMAIN imgdir )
           => /\ pc' = "returned"
              /\ image_data' = [im_status |-> "missing"]
              /\ mode' = "next"
              /\ nev' = nev
              /\ <<"image not found", j + 1>> \in printed'
              /\ UNCHANGED <<file_list, store, overviews, croppeds, j>>
        /\ ( /\ pc = "returned"
             /\ image_data = [im_status |-> "missing"] )
           => /\ pc' = "loop"
              /\ j' = j + 1
              /\ file_list' = [file_list EXCEPT ![j + 1] =
                                  [k \in DOMAIN @ \cup {"im_status"} |->
                                      IF k = "im_status" THEN "missing" ELSE @[k]]]
              /\ store' = [exists |-> TRUE, entries |-> file_list']
              /\ UNCHANGED <<overviews, croppeds>> ]_vars

\* the record whose page is missing is in the store with status "missing"
\* and the loop is at a later record
C16_Witness ==
    /\ pc = "loop"
    /\ store.exists
    /\ \E k \in 1..Len(store.entries) :
          /\ k <= j
          /\ <<"image not found", k>> \in printed
          /\ BaseName(store.entries[k]) \notin DOMAIN imgdir
          /\ store.entries[k]["im_status"] = "missing"

\* C17: every record of the working list and of the store this run wrote
\* keeps each field of its input line that is not an image-measurement
\* field ('im_...'), with its value, and every field it has beyond those of
\* its input line is an image-measurement field.
C17_MergeKeepsOtherFields ==
    LET im_keys ==
            {"im_status", "im_magnification", "im_asym", "im_width", "im_width_px",
             "im_box_h1", "im_box_h2", "im_box_w1", "im_box_w2",
             "im_curvature_deg", "im_curvature_rad", "im_length_curved",
             "im_length_curved_px", "im_length_straight", "im_length_straight_px",
             "im_mm_per_px", "im_p_1st_quart_1", "im_p_1st_quart_2",
             "im_p_3rd_quart_1", "im_p_3rd_quart_2", "im_p_circle_center",
             "im_p_egg_middle", "im_p_length_1", "im_p_length_2",
             "im_p_midpoint_1", "im_p_midpoint_2", "im_p_scale_bar_1",
             "im_p_scale_bar_2", "im_q_development", "im_q_geo_pattern",
             "im_q_image_type", "im_q_operculum", "im_radius_mm", "im_radius_px",
             "im_sb_length_mm", "im_sb_length_px"}
        Kept(old, new) ==
            /\ \A f \in DOMAIN old \ im_keys :
                  IF f \in DOMAIN new THEN new[f] = old[f] ELSE FALSE
            /\ DOMAIN new \ DOMAIN old \subseteq im_keys
        KeptAll(recs) ==
            /\ Len(recs) = Len(Decode(lines))
            /\ \A k \in 1..Len(recs) : Kept(Decode(lines)[k], recs[k])
    IN  /\ file_list # <<>> => KeptAll(file_list)
        /\ (store.exists /\ file_list # <<>>) => KeptAll(store.entries)

\* a confirmed session's result has been merged into a record with
\* bibliographic fields and written to the store
C17_Witness ==
    /\ pc = "loop"
    /\ j > 0
    /\ j \in DOMAIN confirmed
    /\ store.exists
    /\ "im_q_image_type" \in DOMAIN store.entries[j]
    /\ "im_box_h1" \in DOMAIN store.entries[j]
    /\ store.entries[j]["g"] = Decode(lines)[j]["g"]

\* C18: a step that writes an overview or a cropped image is the step that
\* takes the answer 'y' to the confirmation, and it writes only files of the
\* entry in session; so every overview and every cropped image belongs to
\* an entry whose session was confirmed, and none to a declined, missing
\* or empty one.
C18_ArtifactsOnlyAfterYes ==
    [][ /\ (overviews' # overviews \/ croppeds' # croppeds)
           => /\ pc = "confirm"
              /\ q_confirm' = "y"
              /\ DOMAIN overviews' \subseteq DOMAIN overviews \cup {BaseName(file_list[j + 1])}
              /\ DOMAIN croppeds' \subseteq DOMAIN croppeds \cup {BaseName(file_list[j + 1])}
        /\ \A b \in DOMAIN overviews' \cup DOMAIN croppeds' :
              \E k \in DOMAIN confirmed' : BaseName(file_list'[k]) = b ]_vars

\* one entry was confirmed and has both files, and after it a session ended
\* without confirmation (declined, missing image or nothing selected) and
\* has neither
C18_Witness ==
    /\ pc = "loop"
    /\ j >= 2
    /\ \E k \in DOMAIN confirmed :
          /\ BaseName(file_list[k]) \in DOMAIN overviews
          /\ BaseName(file_list[k]) \in DOMAIN croppeds
    /\ \E k \in 1..j :
          /\ k \notin DOMAIN confirmed
          /\ Eligible(Decode(lines)[k])
          /\ BaseName(file_list[k]) \notin DOMAIN overviews \cup DOMAIN croppeds

\* C19: whatever the view is, and however many zoom-ins led to it, the step
\* that takes the key '-' sets the view to the whole image,
\* <<0, img_h, 0, img_w>>, and the session goes on.
C19_ZoomOutRestoresFull ==
    [][ (pc = "events" /\ nev' = nev + 1 /\ lastev'.ev = "-")
          => /\ <<h_min', h_max', w_min', w_max'>> = <<0, img_h, 0, img_w>>
             /\ <<img_h', img_w'>> = <<img_h, img_w>>
             /\ pc' = "events" ]_vars

\* '-' was pressed after a zoom-in (the right click that is the fifth event
\* of ScriptMixed) and the whole image is in view
C19_Witness ==
    /\ pc = "events"
    /\ script = ScriptMixed
    /\ nev = 7
    /\ lastev.ev = "-"
    /\ <<h_min, h_max, w_min, w_max>> = <<0, img_h, 0, img_w>>

(***************************************************************************)
(* The circle through three points.                                        *)
(***************************************************************************)
\* C20: for three points not on one line get_circle_center returns a
\* center at the same distance from each of the three and that distance as
\* the radius, in each of the three orders the function may take the points
\* in; for three points on one line, a vertical one included, it returns
\* 'DNE'.
C20_FitIsCircumcircle ==
    pc # "fit" =>
        LET p1 == fit_in[1]
            p2 == fit_in[2]
            p3 == fit_in[3]
            cross == (p2[1] - p1[1]) * (p3[2] - p1[2]) - (p2[2] - p1[2]) * (p3[1] - p1[1])
            CenterDist2(c, p) ==
                LET dx == RatSub(c.x, RatInt(p[1]))
                    dy == RatSub(c.y, RatInt(p[2]))
                IN  RatAdd(RatMul(dx, dx), RatMul(dy, dy))
        IN  IF cross = 0
            THEN fit_out.kind = "DNE"
            ELSE IF fit_out.kind = "circle"
                 THEN /\ CenterDist2(fit_out.center, p1) = fit_out.radius.sq
                      /\ CenterDist2(fit_out.center, p2) = fit_out.radius.sq
                      /\ CenterDist2(fit_out.center, p3) = fit_out.radius.sq
                 ELSE FALSE

(***************************************************************************)
(* Zoom, click counters and the overlay.                                   *)
(***************************************************************************)
\* C21: the view a zoom-in step computes has the height and the width that
\* calc_new_view gives, from the same current view, for a click at any other
\* position of the window; and when that height fits in the current view
\* the new view lies inside the current one (it was moved, not cut).
C21_ZoomKeepsSize ==
    [][ (pc = "events" /\ mode = "zoom_in" /\ mode' = "box" /\ nev' = nev)
          => /\ \A fy \in 0..ClickGrid, fx \in 0..ClickGrid :
                   LET v == calc_new_view(h_min, h_max, w_min, w_max, res_h, res_w,
                                          ClickY(<<fy, fx>>), ClickX(<<fy, fx>>))
                   IN  /\ v[2] - v[1] = h_max' - h_min'
                       /\ v[4] - v[3] = w_max' - w_min'
             /\ (h_max' - h_min' <= h_max - h_min)
                   => /\ h_min <= h_min' /\ h_max' <= h_max
                      /\ w_min <= w_min' /\ w_max' <= w_max ]_vars

\* a zoom-in on a click in the corner of the window: the new view touches
\* the top and the left edge of the image, is smaller than the image and has
\* pixels
C21_Witness ==
    /\ pc = "events"
    /\ lastev.ev = "R"
    /\ mode = "box"
    /\ cx = 0 /\ cy = 0
    /\ h_min = 0 /\ w_min = 0
    /\ h_min < h_max
    /\ w_max < img_w

\* C22: within a session a step other than the keys '8', '4' and Delete
\* never lowers points; in '4points' mode points is at most 5, at most four
\* outline landmarks were stored since the mode was selected and none of the
\* quartile landmarks is among them; in '8points' mode points is at most 9
\* and at most eight were stored; and a step taken in '4points' mode writes
\* no quartile landmark.
C22_OutlineCounterBounded ==
    [][ LET quart == {"im_p_1st_quart_1", "im_p_1st_quart_2",
                      "im_p_3rd_quart_1", "im_p_3rd_quart_2"}
            outline == quart \cup {"im_p_length_1", "im_p_length_2",
                                   "im_p_midpoint_1", "im_p_midpoint_2"}
        IN  /\ (pc = "events" /\ ~(nev' = nev + 1 /\ lastev'.ev \in {"8", "4", "Delete"}))
               => points' >= points
            /\ mode' = "4points"
               => /\ points' \in 1..5
                  /\ Cardinality(fresh' \cap outline) <= 4
                  /\ Cardinality(fresh' \cap outline) <= points' - 1
                  /\ fresh' \cap quart = {}
            /\ mode' = "8points"
               => /\ points' \in 1..9
                  /\ Cardinality(fresh' \cap outline) <= 8
                  /\ Cardinality(fresh' \cap outline) <= points' - 1
            /\ (pc = "events" /\ mode = "4points")
               => \A k \in quart \cap DOMAIN image_data' :
                     IF k \in DOMAIN image_data THEN image_data'[k] = image_data[k] ELSE FALSE
      ]_vars

\* a fifth left click in '4points' mode stored nothing; an earlier '8' pass
\* is not needed for it
C22_Witness ==
    /\ pc = "events"
    /\ mode = "4points"
    /\ points = 5
    /\ lastev = Ev("L", {})
    /\ {"im_p_length_1", "im_p_length_2", "im_p_midpoint_1", "im_p_midpoint_2"} \subseteq fresh

\* C23: the step that takes a right click, in whatever mode, sets mode to
\* 'zoom_in' and cx, cy to the position of the click, and leaves
\* image_data, the overlay, points, sb_ends and the pending click px, py as
\* they were; the next step of the loop computes the new view from cx, cy.
C23_RightClickOnlyZooms ==
    [][ /\ (pc = "events" /\ nev' = nev + 1 /\ lastev'.ev = "R")
           => /\ mode' = "zoom_in"
              /\ \E e \in Offered :
                    e.ev = "R" /\ cx' = ClickX(e.at) /\ cy' = ClickY(e.at)
              /\ UNCHANGED <<image_data, img, points, sb_ends, px, py, fresh>>
              /\ UNCHANGED <<h_min, h_max, w_min, w_max>>
        /\ (pc = "events" /\ mode = "zoom_in")
           => /\ <<h_min', h_max', w_min', w_max'>> =
                     calc_new_view(h_min, h_max, w_min, w_max, res_h, res_w, cy, cx)
              /\ UNCHANGED <<image_data, img, points, sb_ends, nev>> ]_vars

\* a right click as the fourth event of a session, after an outline mode
\* was selected and two landmarks clicked in it: the mode is 'zoom_in', the
\* landmarks and the counter are as the two clicks left them
C23_Witness ==
    /\ pc = "events"
    /\ mode = "zoom_in"
    /\ lastev = Ev("R", {})
    /\ nev = 4
    /\ points = 3
    /\ fresh = {"im_p_length_1", "im_p_length_2"}
    /\ {"im_p_length_1", "im_p_length_2"} \subseteq DOMAIN image_data

\* C24: the zoom-in step and the zoom-out step leave image_data, the
\* overlay img, points and sb_ends as they were (they set the view, mode
\* and the pending click); and in the event loop the only step that removes
\* a landmark from image_data or a drawing from img is Delete, which
\* empties both.
C24_ZoomKeepsOverlay ==
    [][ /\ (pc = "events" /\ mode = "zoom_in")
           => UNCHANGED <<image_data, img, points, sb_ends, fresh>>
        /\ (pc = "events" /\ nev' = nev + 1 /\ lastev'.ev = "-")
           => UNCHANGED <<image_data, img, points, sb_ends, fresh>>
        /\ (pc = "events" /\ nev' = nev + 1 /\ lastev'.ev = "Delete")
           => image_data' = EmptyDict /\ img' = {}
        /\ ( /\ pc = "events"
             /\ \/ ~(img \subseteq img')
                \/ ~(DOMAIN image_data \subseteq DOMAIN image_data') )
           => (nev' = nev + 1 /\ lastev'.ev = "Delete") ]_vars

\* '-' after a zoom-in, with a scale-bar end and the first corner of a box
\* clicked before them: the landmark and the drawings are still there
C24_Witness ==
    /\ pc = "events"
    /\ script = ScriptMixed
    /\ nev = 7
    /\ lastev.ev = "-"
    /\ "im_p_scale_bar_1" \in DOMAIN image_data
    /\ img # {}

(***************************************************************************)
(* The crop box.                                                           *)
(***************************************************************************)
\* C25: a left click stores the box only in 'box' mode and only when the
\* click it is paired with (px, py) was itself made in 'box' mode since the
\* view was last set; the first left click in 'box' mode stores no box,
\* whatever was clicked before in another mode.
C25_BoxNeedsTwoBoxClicks ==
    [][ ( /\ pc = "events"
          /\ nev' = nev + 1
          /\ lastev'.ev = "L"
          /\ lastev'.keys \cap {"im_box_h1", "im_box_h2", "im_box_w1", "im_box_w2"} # {} )
          => /\ mode = "box"
             /\ px # -1
             /\ pmode = "box" ]_vars

\* C26: whenever the four box keys are in image_data, im_box_h1 < im_box_h2
\* and im_box_w1 < im_box_w2.
C26_BoxStrictlyOrdered ==
    ({"im_box_h1", "im_box_h2", "im_box_w1", "im_box_w2"} \subseteq DOMAIN image_data) =>
        /\ image_data["im_box_h1"] < image_data["im_box_h2"]
        /\ image_data["im_box_w1"] < image_data["im_box_w2"]

(***************************************************************************)
(* Calibration.                                                            *)
(***************************************************************************)
\* C27: with a complete outline, both ends of the scale bar and a length
\* typed in, the finalizer ends with status "absolute", im_sb_length_mm is
\* the length in millimetres (a length in microns divided by 1000),
\* im_mm_per_px is that length over the distance between the two ends, and
\* im_length_straight and im_width are im_mm_per_px times the distance
\* between the poles and between the midline points; for poles (0,0) and
\* (100,0), midline (50,-10) and (50,10), scale bar (0,0)-(0,50) and 5 mm
\* they are 1/10, 10 and 2.
C27_CalibrationFormula ==
    pc # "finalize" =>
        LET s1 == image_data["im_p_scale_bar_1"]
            s2 == image_data["im_p_scale_bar_2"]
            l1 == image_data["im_p_length_1"]
            l2 == image_data["im_p_length_2"]
            m1 == image_data["im_p_midpoint_1"]
            m2 == image_data["im_p_midpoint_2"]
            Root(sq) == CHOOSE r \in 0..200 : r * r = sq
            PerPx(x) == RatDiv(x.mm, RatInt(Root(x.px.sq)))
            Scaled(y) == RatMul(PerPx(y.scale), RatInt(Root(y.px.sq)))
        IN  /\ pc = "questions"
            /\ {"im_sb_length_mm", "im_mm_per_px", "im_length_straight", "im_width",
                "im_status"} \subseteq DOMAIN image_data
            /\ image_data["im_status"] = "absolute"
            /\ \E ans \in SbAnswers :
                  image_data["im_sb_length_mm"] =
                      IF ans[1] = "u" THEN Rat(ans[2], 1000) ELSE RatInt(ans[2])
            /\ image_data["im_mm_per_px"] =
                  [mm |-> image_data["im_sb_length_mm"], px |-> [sq |-> Dist2(s1, s2)]]
            /\ image_data["im_length_straight"] =
                  [scale |-> image_data["im_mm_per_px"], px |-> [sq |-> Dist2(l1, l2)]]
            /\ image_data["im_width"] =
                  [scale |-> image_data["im_mm_per_px"], px |-> [sq |-> Dist2(m1, m2)]]
            /\ ( /\ <<l1, l2, m1, m2, s1, s2>> =
                       <<<<0, 0>>, <<100, 0>>, <<50, -10>>, <<50, 10>>, <<0, 0>>, <<0, 50>>>>
                 /\ image_data["im_sb_length_mm"] = RatInt(5) )
               => /\ PerPx(image_data["im_mm_per_px"]) = Rat(1, 10)
                  /\ Scaled(image_data["im_length_straight"]) = RatInt(10)
                  /\ Scaled(image_data["im_width"]) = RatInt(2)

(***************************************************************************)
(* One record at a time.                                                   *)
(***************************************************************************)
\* C28: j never goes back; process_one_image is called only from the loop,
\* for the eligible record at j, never after Esc, and, when a session was
\* run before in this run, only with the store holding the working list as
\* that session left it; a session leaves for the loop only by returning,
\* with the store rewritten and j advanced by one, and after Esc the run
\* ends.
C28_OneSessionAtATime ==
    [][ /\ j' >= j
        /\ (pc = "loop" /\ pc' \in {"events", "returned"})
           => /\ j' = j
              /\ Eligible(file_list[j + 1])
              /\ mode # "quit"
              /\ mode # "unset" => (store.exists /\ store.entries = file_list)
        /\ (pc' \in {"events", "finalize", "questions", "confirm", "returned"} /\ pc' # pc)
           => pc \in {"loop", "events", "finalize", "questions", "confirm"}
        /\ (pc \in {"events", "finalize", "questions", "confirm", "returned"})
           => \/ j' = j /\ pc' # "loop" /\ file_list' = file_list /\ store' = store
              \/ /\ pc = "returned" /\ pc' = "loop" /\ mode # "quit"
                 /\ j' = j + 1
                 /\ store' = [exists |-> TRUE, entries |-> file_list']
        /\ (pc = "returned" /\ mode = "quit") => pc' = "done"
        /\ pc = "done" => pc' = "done" ]_vars

\* the session of a later record is open, the record before it had a
\* session, and the store holds the working list
C28_Witness ==
    /\ pc = "events"
    /\ j >= 1
    /\ nev >= 1
    /\ Eligible(Decode(lines)[j])
    /\ store.exists
    /\ store.entries = file_list

(***************************************************************************)
(* Curvature.                                                              *)
(***************************************************************************)
\* C29: for poles and an egg middle with a circle through them, the
\* curvature the finalizer stores is the angle between the two vectors from
\* the circle's center to the poles (its cosine is their dot product over
\* the product of their lengths) when the distance from the egg middle to
\* the midpoint of the poles is at most the radius, and 2*pi minus that
\* angle (2*pi lies between 6.2831 and 6.2832) when it is greater.
C29_CurvatureTwoBranches ==
    (pc \in {"curved", "crashed"} /\ fit_out.kind = "circle") =>
        LET p1 == image_data["im_p_length_1"]
            p2 == image_data["im_p_length_2"]
            c == image_data["im_p_circle_center"]
            r2 == image_data["im_radius_px"].sq
            x_v1 == RatSub(RatInt(p1[1]), c.x)
            y_v1 == RatSub(RatInt(p1[2]), c.y)
            x_v2 == RatSub(RatInt(p2[1]), c.x)
            y_v2 == RatSub(RatInt(p2[2]), c.y)
            dot == RatAdd(RatMul(x_v1, x_v2), RatMul(y_v1, y_v2))
            len1sq == RatAdd(RatMul(x_v1, x_v1), RatMul(y_v1, y_v1))
            len2sq == RatAdd(RatMul(x_v2, x_v2), RatMul(y_v2, y_v2))
            disp2 == Dist2(image_data["im_p_egg_middle"], midpoint(p1, p2))
            far == RatLess(r2, RatInt(disp2))
        IN  /\ pc = "curved"
            /\ "im_curvature_rad" \in DOMAIN image_data
            /\ LET rad == image_data["im_curvature_rad"]
               IN  /\ ~rad.zero
                   /\ len1sq = r2 /\ len2sq = r2
                   /\ rad.acos = RatDiv(dot, r2)
                   /\ rad.flipped = far
                   /\ rad.flipped =>
                         /\ RatLess(Rat(62831, 10000), rad.minuend)
                         /\ RatLess(rad.minuend, Rat(62832, 10000))

(***************************************************************************)
(* The viewport has pixels.                                                *)
(***************************************************************************)
\* C30: from the moment a session has opened its image, the view has at
\* least one row and one column, h_min < h_max and w_min < w_max, also in
\* the state in which make_new_view is given the view of a zoom-in.
C30_ViewHasArea ==
    (pc \in {"events", "finalize", "questions", "confirm", "crashed"} /\ img_h > 0) =>
        /\ h_min < h_max
        /\ w_min < w_max

(***************************************************************************)
(* The crop of a confirmed session.                                        *)
(***************************************************************************)
\* C31: whenever the operator is asked 'Is this correct?' the four box keys
\* are in image_data, and the step that takes the answer 'y' writes the
\* cropped image without a KeyError.
C31_ConfirmHasBox ==
    [][ (pc = "confirm" /\ q_confirm' = "y")
          => /\ {"im_box_h1", "im_box_h2", "im_box_w1", "im_box_w2"} \subseteq DOMAIN image_data
             /\ err' # "KeyError" ]_vars

(***************************************************************************)
(* The divisors of the finalizer.                                          *)
(***************************************************************************)
\* C32: the finalizer never raises ZeroDivisionError on landmarks recorded
\* by clicks: the scale-bar pixel distance and the shorter quartile width
\* are not zero when it divides by them, and the asymmetry it stores has a
\* longer quartile at least as long as the shorter one (a ratio of 1 or
\* more).
C32_NoZeroDivisor ==
    [][ pc = "finalize"
          => /\ err' # "ZeroDivisionError"
             /\ "im_asym" \in DOMAIN image_data'
                  => /\ image_data'["im_asym"].shorter.sq > 0
                     /\ image_data'["im_asym"].longer.sq >= image_data'["im_asym"].shorter.sq ]_vars

====
